---- MODULE Spec2Model ----
(***************************************************************************)
(* A model of asmquery: the x64 machine specification table of             *)
(* src/lib.rs (x64::spec and its builder helpers) and the Low IR matching  *)
(* loop that the module documentation of src/lib.rs describes.             *)
(***************************************************************************)
EXTENDS Integers, Sequences, FiniteSets, TLC

(***************************************************************************)
(* actions::Generic.  A generic operation is a tag with up to two Bits     *)
(* arguments (a, b); tags without arguments carry zeroes.                  *)
(***************************************************************************)
Generic(tag, a, b) == [tag |-> tag, a |-> a, b |-> b]

Store(input, mem_size) == Generic("Store", input, mem_size)
Load(out, mem_size) == Generic("Load", out, mem_size)
OverflowSigned == Generic("OverflowSigned", 0, 0)
OverflowUnsigned == Generic("OverflowUnsigned", 0, 0)
AddWithCarry(bits) == Generic("AddWithCarry", bits, 0)
Add(bits) == Generic("Add", bits, 0)
AddWithCarryOverflowS(bits) == Generic("AddWithCarryOverflowS", bits, 0)
AddWithCarryOverflowU(bits) == Generic("AddWithCarryOverflowU", bits, 0)
AddOverflowS(bits) == Generic("AddOverflowS", bits, 0)
AddOverflowU(bits) == Generic("AddOverflowU", bits, 0)
AddFp(bits) == Generic("AddFp", bits, 0)
And(bits) == Generic("And", bits, 0)
PackedAnd(bits) == Generic("PackedAnd", bits, 0)
ShiftLOverflow(bits) == Generic("ShiftLOverflow", bits, 0)
ShiftArithR(bits) == Generic("ShiftArithR", bits, 0)
ShiftArithRUnderflowS(bits) == Generic("ShiftArithRUnderflowS", bits, 0)
ShiftLogicalR(bits) == Generic("ShiftLogicalR", bits, 0)
ShiftLogicalRUnderflowU(bits) == Generic("ShiftLogicalRUnderflowU", bits, 0)
DivFp(bits) == Generic("DivFp", bits, 0)
MaxFp(bits) == Generic("MaxFp", bits, 0)
MinFp(bits) == Generic("MinFp", bits, 0)
MulFp(bits) == Generic("MulFp", bits, 0)
SMul(bits) == Generic("SMul", bits, 0)
UMul(bits) == Generic("UMul", bits, 0)
Or(bits) == Generic("Or", bits, 0)
PackedOr(bits) == Generic("PackedOr", bits, 0)
Xor(bits) == Generic("Xor", bits, 0)
PackedXor(bits) == Generic("PackedXor", bits, 0)
ShiftL(bits) == Generic("ShiftL", bits, 0)
SqrtFp(bits) == Generic("SqrtFp", bits, 0)
SubWithCarry(bits) == Generic("SubWithCarry", bits, 0)
Sub(bits) == Generic("Sub", bits, 0)
SubWithCarryOverflowS(bits) == Generic("SubWithCarryOverflowS", bits, 0)
SubWithCarryOverflowU(bits) == Generic("SubWithCarryOverflowU", bits, 0)
SubOverflowS(bits) == Generic("SubOverflowS", bits, 0)
SubOverflowU(bits) == Generic("SubOverflowU", bits, 0)
SubFp(bits) == Generic("SubFp", bits, 0)
Move(bits) == Generic("Move", bits, 0)
IsZero == Generic("IsZero", 0, 0)
IsNonZero == Generic("IsNonZero", 0, 0)
LtZero == Generic("LtZero", 0, 0)
Clear == Generic("Clear", 0, 0)
MulTrunc(bits) == Generic("MulTrunc", bits, 0)
Undefined(bits) == Generic("Undefined", bits, 0)

(***************************************************************************)
(* x64::regs and the two register classes, in declaration order.           *)
(***************************************************************************)
regs ==
    << "RAX", "RBX", "RCX", "RDX", "RBP", "RSI", "RDI", "RSP",
       "R8", "R9", "R10", "R11", "R12", "R13", "R14", "R15",
       "CF", "OF", "ZF", "SF",
       "XMM0", "XMM1", "XMM2", "XMM3", "XMM4", "XMM5", "XMM6", "XMM7" >>

RegClass(members) == [kind |-> "class", regs |-> members, bits |-> 0]
Reg(r) == [kind |-> "reg", regs |-> <<r>>, bits |-> 0]
Immediate(bits) == [kind |-> "imm", regs |-> <<>>, bits |-> bits]

INT_REG ==
    RegClass(<< "RAX", "RBX", "RCX", "RDX", "RBP", "RSI", "RDI", "RSP",
                "R9", "R10", "R11", "R12", "R13", "R14", "R15" >>)

FP_REG ==
    RegClass(<< "XMM0", "XMM1", "XMM2", "XMM3", "XMM4", "XMM5", "XMM6", "XMM7" >>)

MEM_OPERAND_SIZE == 32

(***************************************************************************)
(* machine::InstrBuilder.  A builder holds the steps declared so far.      *)
(* Template Vars are numbered 1, 2, ... in order of allocation.  A step is *)
(* a parameter step (an input slot with a constraint) or an action step    *)
(* (an operation on earlier Vars, producing Var v; reg is the register the *)
(* output is written to, "" when the action names none).                   *)
(***************************************************************************)
NoConstraint == [kind |-> "none", regs |-> <<>>, bits |-> 0]
NoOp == Generic("", 0, 0)

ParamStep(v, c) ==
    [kind |-> "param", v |-> v, c |-> c, op |-> NoOp, ins |-> <<>>, reg |-> ""]
ActionStep(v, op, ins, reg) ==
    [kind |-> "action", v |-> v, c |-> NoConstraint, op |-> op, ins |-> ins, reg |-> reg]

\* The builder that the closure of a form receives: the number of Vars
\* allocated, the steps and eqs declared, the alternative of the memory
\* operand, and the Var that each `let` of the closure names.
new_instr == [n |-> 0, steps |-> <<>>, eqs |-> {}, variant |-> 0, env |-> {}]

\* The destination of action_into: a register, or an already allocated Var.
IntoReg(r) == [reg |-> r, v |-> ""]
IntoVar(v) == [reg |-> "", v |-> v]

\* The calls of a closure, in the order it makes them.  A call is kept with
\* the name its result is bound to (`let left = new.param(INT_REG)` is
\* param("left", INT_REG)) and with the names of the Vars it is given.
Call(kind, name, c, dest, op, ins, k) ==
    << [kind |-> kind, name |-> name, c |-> c, dest |-> dest, op |-> op, ins |-> ins,
        k |-> k] >>

param(name, c) == Call("param", name, c, IntoVar(""), NoOp, <<>>, 0)
action(name, op, ins) == Call("action", name, NoConstraint, IntoVar(""), op, ins, 0)
action_into(dest, op, ins) == Call("action_into", "", NoConstraint, dest, op, ins, 0)
eq(x, y) == Call("eq", "", NoConstraint, IntoVar(""), NoOp, <<x, y>>, 0)
variants(name, k) == Call("variants", name, NoConstraint, IntoVar(""), NoOp, <<>>, k)

\* The Var that a name of the closure stands for, and the binding of a name.
VarOf(b, name) == (CHOOSE e \in b.env : e[1] = name)[2]
Bind(b, name, v) == {e \in b.env : e[1] # name} \cup {<<name, v>>}

\* One call on the builder b.
Run(b, call) ==
    LET v == b.n + 1
        ins == IF call.ins = <<>> THEN <<>>
               ELSE [q \in DOMAIN call.ins |-> VarOf(b, call.ins[q])]
    IN  CASE call.kind = "param" ->
               [b EXCEPT !.n = v, !.steps = Append(@, ParamStep(v, call.c)),
                         !.env = Bind(b, call.name, v)]
          [] call.kind = "action" ->
               [b EXCEPT !.n = v, !.steps = Append(@, ActionStep(v, call.op, ins, "")),
                         !.env = Bind(b, call.name, v)]
          [] call.kind = "action_into" /\ call.dest.reg # "" ->
               [b EXCEPT !.n = v,
                         !.steps = Append(@, ActionStep(v, call.op, ins, call.dest.reg))]
          [] call.kind = "action_into" /\ call.dest.reg = "" ->
               [b EXCEPT !.steps =
                            Append(@, ActionStep(VarOf(b, call.dest.v), call.op, ins, ""))]
          [] call.kind = "eq" ->
               [b EXCEPT !.eqs = @ \cup {<<ins[1], ins[2]>>}]
          [] OTHER ->
               [b EXCEPT !.n = v, !.variant = call.k, !.env = Bind(b, call.name, v)]

\* The builder after the first n calls of a closure.
RECURSIVE RunUpTo(_, _)
RunUpTo(calls, n) ==
    IF n = 0 THEN new_instr
    ELSE CHOOSE after \in {Run(b, calls[n]) : b \in {RunUpTo(calls, n - 1)}} : TRUE

(***************************************************************************)
(* InstrBuilderExt::memory.  The memory operand is a variant set with one  *)
(* shared output Var; k selects the alternative that is laid out.          *)
(***************************************************************************)
MEMORY_VARIANTS == 5

\* A memory operand that is a register holding the address, whatever the
\* alternative.
memory_address_only(out, k) ==
    variants(out, k) \o param("address", INT_REG) \o eq(out, "address")

memory(out, k) ==
    variants(out, k)
    \o CASE k = 1 ->
               param("address", INT_REG)
              \o eq(out, "address")
         [] k = 2 ->
               param("base", INT_REG)
              \o param("index", INT_REG)
              \o action_into(IntoVar(out), Add(MEM_OPERAND_SIZE), <<"base", "index">>)
         [] k = 3 ->
               param("base", INT_REG)
              \o param("disp", Immediate(MEM_OPERAND_SIZE))
              \o action_into(IntoVar(out), Add(MEM_OPERAND_SIZE), <<"base", "disp">>)
         [] k = 4 ->
               param("base", INT_REG)
              \o param("index", INT_REG)
              \o param("disp", Immediate(MEM_OPERAND_SIZE))
              \o action("intermediate", Add(MEM_OPERAND_SIZE), <<"base", "index">>)
              \o action_into(IntoVar(out), Add(MEM_OPERAND_SIZE),
                             <<"intermediate", "disp">>)
         [] OTHER ->
               param("base", INT_REG)
              \o param("index", INT_REG)
              \o param("scale", Immediate(3))
              \o action("shifted_index", ShiftL(MEM_OPERAND_SIZE), <<"index", "scale">>)
              \o param("disp", Immediate(MEM_OPERAND_SIZE))
              \o action("intermediate", Add(MEM_OPERAND_SIZE), <<"base", "shifted_index">>)
              \o action_into(IntoVar(out), Add(MEM_OPERAND_SIZE),
                             <<"intermediate", "disp">>)

(***************************************************************************)
(* InstrBuilderExt: the operation of a form together with the flag and     *)
(* register writes that come with it.  out names the result.               *)
(***************************************************************************)
integer_smul(out, op, size, cf_action, of_action, left, right) ==
    action(out, op, <<left, right>>)
    \o action_into(IntoReg("CF"), cf_action, <<out>>)
    \o action_into(IntoReg("OF"), of_action, <<out>>)
    \o action_into(IntoReg("ZF"), Undefined(size), <<out>>)
    \o action_into(IntoReg("SF"), Undefined(size), <<out>>)

integer_umul(out, op, size, cf_action, of_action, left, right) ==
    action(out, op, <<left, right>>)
    \o param("dest", Reg("RAX"))
    \o eq("dest", out)
    \o action_into(IntoReg("CF"), cf_action, <<out>>)
    \o action_into(IntoReg("OF"), of_action, <<out>>)
    \o action_into(IntoReg("ZF"), Undefined(size), <<out>>)
    \o action_into(IntoReg("SF"), Undefined(size), <<out>>)
    \o action_into(IntoReg("RDX"), Undefined(size), <<out>>)

\* An arith whose flag writes leave out the zero test.
arith_untested(out, op, overflow_s, overflow_u, left, right) ==
    action(out, op, <<left, right>>)
    \o action_into(IntoReg("CF"), overflow_u, <<out>>)
    \o action_into(IntoReg("OF"), overflow_s, <<out>>)
    \o action_into(IntoReg("SF"), LtZero, <<out>>)

arith(out, op, overflow_s, overflow_u, left, right) ==
    action(out, op, <<left, right>>)
    \o action_into(IntoReg("CF"), overflow_u, <<out>>)
    \o action_into(IntoReg("OF"), overflow_s, <<out>>)
    \o action_into(IntoReg("ZF"), IsZero, <<out>>)
    \o action_into(IntoReg("SF"), LtZero, <<out>>)

arith_carry(out, op, overflow_s, overflow_u, left, right) ==
    param("carry", Reg("CF"))
    \o action(out, op, <<left, right, "carry">>)
    \o action_into(IntoReg("CF"), overflow_u, <<out>>)
    \o action_into(IntoReg("OF"), overflow_s, <<out>>)
    \o action_into(IntoReg("ZF"), IsZero, <<out>>)
    \o action_into(IntoReg("SF"), LtZero, <<out>>)

\* A logical operation that leaves CF and OF as they were.
arith_logical_carry_kept(out, op, left, right) ==
    action(out, op, <<left, right>>)
    \o action_into(IntoReg("ZF"), IsZero, <<out>>)
    \o action_into(IntoReg("SF"), LtZero, <<out>>)

arith_logical(out, op, left, right) ==
    action(out, op, <<left, right>>)
    \o action_into(IntoReg("CF"), Clear, <<>>)
    \o action_into(IntoReg("OF"), Clear, <<>>)
    \o action_into(IntoReg("ZF"), IsZero, <<out>>)
    \o action_into(IntoReg("SF"), LtZero, <<out>>)

arith_fp(out, op, left, right) == action(out, op, <<left, right>>)

move_action(out, op, left, right) == action(out, op, <<left, right>>)

\* `Generic as G`: the operations that take a width, as the table passes them
\* to the families of forms (G::Add is the function from a width to Add).
Bits == {8, 16, 24, 32, 64}

G ==
    [Add |-> [z \in Bits |-> Add(z)],
     AddFp |-> [z \in Bits |-> AddFp(z)],
     AddOverflowS |-> [z \in Bits |-> AddOverflowS(z)],
     AddOverflowU |-> [z \in Bits |-> AddOverflowU(z)],
     AddWithCarry |-> [z \in Bits |-> AddWithCarry(z)],
     AddWithCarryOverflowS |-> [z \in Bits |-> AddWithCarryOverflowS(z)],
     AddWithCarryOverflowU |-> [z \in Bits |-> AddWithCarryOverflowU(z)],
     And |-> [z \in Bits |-> And(z)],
     DivFp |-> [z \in Bits |-> DivFp(z)],
     MaxFp |-> [z \in Bits |-> MaxFp(z)],
     MinFp |-> [z \in Bits |-> MinFp(z)],
     Move |-> [z \in Bits |-> Move(z)],
     MulFp |-> [z \in Bits |-> MulFp(z)],
     MulTrunc |-> [z \in Bits |-> MulTrunc(z)],
     Or |-> [z \in Bits |-> Or(z)],
     PackedAnd |-> [z \in Bits |-> PackedAnd(z)],
     PackedOr |-> [z \in Bits |-> PackedOr(z)],
     PackedXor |-> [z \in Bits |-> PackedXor(z)],
     SMul |-> [z \in Bits |-> SMul(z)],
     ShiftArithR |-> [z \in Bits |-> ShiftArithR(z)],
     ShiftArithRUnderflowS |-> [z \in Bits |-> ShiftArithRUnderflowS(z)],
     ShiftL |-> [z \in Bits |-> ShiftL(z)],
     ShiftLOverflow |-> [z \in Bits |-> ShiftLOverflow(z)],
     ShiftLogicalR |-> [z \in Bits |-> ShiftLogicalR(z)],
     ShiftLogicalRUnderflowU |-> [z \in Bits |-> ShiftLogicalRUnderflowU(z)],
     SqrtFp |-> [z \in Bits |-> SqrtFp(z)],
     Sub |-> [z \in Bits |-> Sub(z)],
     SubFp |-> [z \in Bits |-> SubFp(z)],
     SubOverflowS |-> [z \in Bits |-> SubOverflowS(z)],
     SubOverflowU |-> [z \in Bits |-> SubOverflowU(z)],
     SubWithCarry |-> [z \in Bits |-> SubWithCarry(z)],
     SubWithCarryOverflowS |-> [z \in Bits |-> SubWithCarryOverflowS(z)],
     SubWithCarryOverflowU |-> [z \in Bits |-> SubWithCarryOverflowU(z)],
     Undefined |-> [z \in Bits |-> Undefined(z)],
     Xor |-> [z \in Bits |-> Xor(z)]]

Range(s) == {s[x] : x \in DOMAIN s}

(***************************************************************************)
(* MachineSpec::instr.  An InstrDef is a name with its step sequences: one *)
(* per alternative of the memory operand when the form has one, otherwise  *)
(* a single one.  body(k) is the closure that declares the form.           *)
(***************************************************************************)
instr(name, body) ==
    [name |-> name,
     alts |-> LET InstrDef(k) ==
                      LET b == RunUpTo(body[k], Len(body[k]))
                      IN  [n |-> b.n, steps |-> b.steps, eqs |-> b.eqs,
                           variant |-> b.variant]
               IN  IF InstrDef(1).variant = 0
               THEN <<InstrDef(1)>>
               ELSE <<InstrDef(1), InstrDef(2), InstrDef(3), InstrDef(4), InstrDef(5)>>]

\* The forms of a *_variants call: per(t) is the tuple of forms registered for
\* one entry t of sizes, in registration order.
RECURSIVE ForEachSizeUpTo(_, _, _)
ForEachSizeUpTo(sizes, per, n) ==
    IF n = 0 THEN <<>> ELSE ForEachSizeUpTo(sizes, per, n - 1) \o per[sizes[n]]

\* A loop that registers the forms of the first entry of sizes at every turn.
ForEachSizeAsFirst(sizes, per) ==
    ForEachSizeUpTo(sizes, [t \in Range(sizes) |-> per[sizes[1]]], Len(sizes))

ForEachSize(sizes, per) == ForEachSizeUpTo(sizes, per, Len(sizes))

(***************************************************************************)
(* MachineSpecExt: the families of forms.  An immediate of a move is as    *)
(* wide as the operand, 32 bits for a 64-bit operand; declaring any other  *)
(* operand size panics, which leaves no machine specification at all.      *)
(***************************************************************************)
BadImmediateSize == [kind |-> "panic", regs |-> <<>>, bits |-> 0]

\* A move that takes a 32-bit immediate for every size it has no case for.
MoveImmediateAny(size) ==
    IF size \in {8, 16, 32} THEN Immediate(size) ELSE Immediate(32)

MoveImmediate(size) ==
    IF size \in {8, 16, 32} THEN Immediate(size)
    ELSE IF size = 64 THEN Immediate(32)
    ELSE BadImmediateSize

\* MachineSpecExt::move_variants: the register-register, register-memory,
\* memory-register, register-immediate and memory-immediate form of each size.
move_variants(op, sizes) ==
    LET rr(size, k) ==
               param("left", INT_REG)
            \o param("right", INT_REG)
            \o move_action("out", op[size], "left", "right")
            \o eq("left", "out")
        rm(size, k) ==
               param("left", INT_REG)
            \o memory("right_addr", k)
            \o action("right", Load(size, MEM_OPERAND_SIZE), <<"right_addr">>)
            \o move_action("out", op[size], "left", "right")
            \o eq("out", "left")
        mr(size, k) ==
               memory("left_addr", k)
            \o param("right", INT_REG)
            \o action("left", Load(size, MEM_OPERAND_SIZE), <<"left_addr">>)
            \o move_action("out", op[size], "left", "right")
            \o action("_", Store(size, MEM_OPERAND_SIZE), <<"out">>)
        ri(size, k) ==
               param("left", INT_REG)
            \o param("right", MoveImmediate(size))
            \o move_action("out", op[size], "left", "right")
            \o eq("left", "out")
        mi(size, k) ==
               memory("left_addr", k)
            \o action("left", Load(size, MEM_OPERAND_SIZE), <<"left_addr">>)
            \o param("right", MoveImmediate(size))
            \o move_action("out", op[size], "left", "right")
            \o action("_", Store(size, MEM_OPERAND_SIZE), <<"out">>)
    IN  ForEachSize(sizes, [t \in Range(sizes) |->
            << instr(t[2], [k \in 1..MEMORY_VARIANTS |-> rr(t[1], k)]),
               instr(t[3], [k \in 1..MEMORY_VARIANTS |-> rm(t[1], k)]),
               instr(t[4], [k \in 1..MEMORY_VARIANTS |-> mr(t[1], k)]),
               instr(t[5], [k \in 1..MEMORY_VARIANTS |-> ri(t[1], k)]),
               instr(t[6], [k \in 1..MEMORY_VARIANTS |-> mi(t[1], k)]) >>])

\* MachineSpecExt::arith_variants: the register-register, register-memory,
\* memory-register, register-immediate and memory-immediate form of each size.
arith_variants(op, overflow_s, overflow_u, sizes) ==
    LET rr(size, k) ==
               param("left", INT_REG)
            \o param("right", INT_REG)
            \o arith("out", op[size], overflow_s[size], overflow_u[size], "left", "right")
            \o eq("left", "out")
        rm(size, k) ==
               param("left", INT_REG)
            \o memory("right_addr", k)
            \o action("right", Load(size, MEM_OPERAND_SIZE), <<"right_addr">>)
            \o arith("out", op[size], overflow_s[size], overflow_u[size], "left",
                  "right")
            \o eq("out", "left")
        mr(size, k) ==
               memory("left_addr", k)
            \o param("right", INT_REG)
            \o action("left", Load(size, MEM_OPERAND_SIZE), <<"left_addr">>)
            \o arith("out", op[size], overflow_s[size], overflow_u[size], "left",
                  "right")
            \o action("_", Store(size, MEM_OPERAND_SIZE), <<"out">>)
        ri(size, k) ==
               param("left", INT_REG)
            \o param("right", Immediate(32))
            \o arith("out", op[size], overflow_s[size], overflow_u[size], "left",
                  "right")
            \o eq("left", "out")
        mi(size, k) ==
               memory("left_addr", k)
            \o action("left", Load(size, MEM_OPERAND_SIZE), <<"left_addr">>)
            \o param("right", Immediate(32))
            \o arith("out", op[size], overflow_s[size], overflow_u[size], "left",
                  "right")
            \o action("_", Store(size, MEM_OPERAND_SIZE), <<"out">>)
    IN  ForEachSize(sizes, [t \in Range(sizes) |->
            << instr(t[2], [k \in 1..MEMORY_VARIANTS |-> rr(t[1], k)]),
               instr(t[3], [k \in 1..MEMORY_VARIANTS |-> rm(t[1], k)]),
               instr(t[4], [k \in 1..MEMORY_VARIANTS |-> mr(t[1], k)]),
               instr(t[5], [k \in 1..MEMORY_VARIANTS |-> ri(t[1], k)]),
               instr(t[6], [k \in 1..MEMORY_VARIANTS |-> mi(t[1], k)]) >>])

\* MachineSpecExt::arith_variants_carry: the register-register, register-memory,
\* memory-register, register-immediate and memory-immediate form of each size.
arith_variants_carry(op, overflow_s, overflow_u, sizes) ==
    LET rr(size, k) ==
               param("left", INT_REG)
            \o param("right", INT_REG)
            \o arith_carry("out", op[size], overflow_s[size], overflow_u[size], "left",
                 "right")
            \o eq("left", "out")
        rm(size, k) ==
               param("left", INT_REG)
            \o memory("right_addr", k)
            \o action("right", Load(size, MEM_OPERAND_SIZE), <<"right_addr">>)
            \o arith_carry("out", op[size], overflow_s[size], overflow_u[size],
                  "left", "right")
            \o eq("out", "left")
        mr(size, k) ==
               memory("left_addr", k)
            \o param("right", INT_REG)
            \o action("left", Load(size, MEM_OPERAND_SIZE), <<"left_addr">>)
            \o arith_carry("out", op[size], overflow_s[size], overflow_u[size],
                  "left", "right")
            \o action("_", Store(size, MEM_OPERAND_SIZE), <<"out">>)
        ri(size, k) ==
               param("left", INT_REG)
            \o param("right", Immediate(32))
            \o arith_carry("out", op[size], overflow_s[size], overflow_u[size],
                  "left", "right")
            \o eq("left", "out")
        mi(size, k) ==
               memory("left_addr", k)
            \o action("left", Load(size, MEM_OPERAND_SIZE), <<"left_addr">>)
            \o param("right", Immediate(32))
            \o arith_carry("out", op[size], overflow_s[size], overflow_u[size],
                  "left", "right")
            \o action("_", Store(size, MEM_OPERAND_SIZE), <<"out">>)
    IN  ForEachSize(sizes, [t \in Range(sizes) |->
            << instr(t[2], [k \in 1..MEMORY_VARIANTS |-> rr(t[1], k)]),
               instr(t[3], [k \in 1..MEMORY_VARIANTS |-> rm(t[1], k)]),
               instr(t[4], [k \in 1..MEMORY_VARIANTS |-> mr(t[1], k)]),
               instr(t[5], [k \in 1..MEMORY_VARIANTS |-> ri(t[1], k)]),
               instr(t[6], [k \in 1..MEMORY_VARIANTS |-> mi(t[1], k)]) >>])

\* MachineSpecExt::arith_variants_logical: the register-register, register-memory,
\* memory-register, register-immediate and memory-immediate form of each size.
arith_variants_logical(op, sizes) ==
    LET rr(size, k) ==
               param("left", INT_REG)
            \o param("right", INT_REG)
            \o arith_logical("out", op[size], "left", "right")
            \o eq("left", "out")
        rm(size, k) ==
               param("left", INT_REG)
            \o memory("right_addr", k)
            \o action("right", Load(size, MEM_OPERAND_SIZE), <<"right_addr">>)
            \o arith_logical("out", op[size], "left", "right")
            \o eq("out", "left")
        mr(size, k) ==
               memory("left_addr", k)
            \o param("right", INT_REG)
            \o action("left", Load(size, MEM_OPERAND_SIZE), <<"left_addr">>)
            \o arith_logical("out", op[size], "left", "right")
            \o action("_", Store(size, MEM_OPERAND_SIZE), <<"out">>)
        ri(size, k) ==
               param("left", INT_REG)
            \o param("right", Immediate(32))
            \o arith_logical("out", op[size], "left", "right")
            \o eq("left", "out")
        mi(size, k) ==
               memory("left_addr", k)
            \o action("left", Load(size, MEM_OPERAND_SIZE), <<"left_addr">>)
            \o param("right", Immediate(32))
            \o arith_logical("out", op[size], "left", "right")
            \o action("_", Store(size, MEM_OPERAND_SIZE), <<"out">>)
    IN  ForEachSize(sizes, [t \in Range(sizes) |->
            << instr(t[2], [k \in 1..MEMORY_VARIANTS |-> rr(t[1], k)]),
               instr(t[3], [k \in 1..MEMORY_VARIANTS |-> rm(t[1], k)]),
               instr(t[4], [k \in 1..MEMORY_VARIANTS |-> mr(t[1], k)]),
               instr(t[5], [k \in 1..MEMORY_VARIANTS |-> ri(t[1], k)]),
               instr(t[6], [k \in 1..MEMORY_VARIANTS |-> mi(t[1], k)]) >>])

\* MachineSpecExt::arith_variants_fp: register-register and register-memory.
arith_variants_fp(op, sizes) ==
    LET rr(size, k) ==
               param("left", FP_REG)
            \o param("right", FP_REG)
            \o arith_fp("out", op[size], "left", "right")
            \o eq("left", "out")
        rm(size, k) ==
               param("left", FP_REG)
            \o memory("right_addr", k)
            \o action("right", Load(size, MEM_OPERAND_SIZE), <<"right_addr">>)
            \o arith_fp("out", op[size], "left", "right")
            \o eq("out", "left")
    IN  ForEachSize(sizes, [t \in Range(sizes) |->
            << instr(t[2], [k \in 1..MEMORY_VARIANTS |-> rr(t[1], k)]),
               instr(t[3], [k \in 1..MEMORY_VARIANTS |-> rm(t[1], k)]) >>])

\* MachineSpecExt::move_packed_variants.
move_packed_variants(op, sizes) ==
    LET rr(size, k) ==
               param("left", FP_REG)
            \o param("right", FP_REG)
            \o move_action("out", op[size], "left", "right")
            \o eq("left", "out")
        rm(size, k) ==
               param("left", FP_REG)
            \o memory("right_addr", k)
            \o action("right", Load(size, MEM_OPERAND_SIZE), <<"right_addr">>)
            \o move_action("out", op[size], "left", "right")
            \o eq("out", "left")
        mr(size, k) ==
               memory("left_addr", k)
            \o param("right", FP_REG)
            \o action("left", Load(size, MEM_OPERAND_SIZE), <<"left_addr">>)
            \o move_action("out", op[size], "left", "right")
            \o action("_", Store(size, MEM_OPERAND_SIZE), <<"out">>)
    IN  ForEachSize(sizes, [t \in Range(sizes) |->
            << instr(t[2], [k \in 1..MEMORY_VARIANTS |-> rr(t[1], k)]),
               instr(t[3], [k \in 1..MEMORY_VARIANTS |-> rm(t[1], k)]),
               instr(t[4], [k \in 1..MEMORY_VARIANTS |-> mr(t[1], k)]) >>])

\* MachineSpecExt::move_transfer_variants: between an FP register and an
\* integer register or memory.
move_transfer_variants(op, sizes) ==
    LET mm_r(size, k) ==
               param("left", FP_REG)
            \o param("right", INT_REG)
            \o move_action("out", op[size], "left", "right")
            \o eq("left", "out")
        mm_mem(size, k) ==
               param("left", FP_REG)
            \o memory("right_addr", k)
            \o action("right", Load(size, MEM_OPERAND_SIZE), <<"right_addr">>)
            \o move_action("out", op[size], "left", "right")
            \o eq("out", "left")
        r_mm(size, k) ==
               param("left", INT_REG)
            \o param("right", FP_REG)
            \o move_action("out", op[size], "left", "right")
            \o eq("left", "out")
        mem_mm(size, k) ==
               param("left", FP_REG)
            \o memory("right_addr", k)
            \o action("right", Load(size, MEM_OPERAND_SIZE), <<"right_addr">>)
            \o move_action("out", op[size], "left", "right")
            \o eq("left", "out")
    IN  ForEachSize(sizes, [t \in Range(sizes) |->
            << instr(t[2], [k \in 1..MEMORY_VARIANTS |-> mm_r(t[1], k)]),
               instr(t[3], [k \in 1..MEMORY_VARIANTS |-> mm_mem(t[1], k)]),
               instr(t[4], [k \in 1..MEMORY_VARIANTS |-> r_mm(t[1], k)]),
               instr(t[5], [k \in 1..MEMORY_VARIANTS |-> mem_mm(t[1], k)]) >>])

\* MachineSpecExt::signed_multiply_variants.  The two immediate forms leave
\* the product unconstrained (no eq with the first source operand).
signed_multiply_variants(op, overflow, carry, sizes) ==
    LET rr(size, k) ==
               param("left", INT_REG)
            \o param("right", INT_REG)
            \o integer_smul("out", op[size], size, overflow[size], carry[size], "left",
                 "right")
            \o eq("left", "out")
        rm(size, k) ==
               param("left", INT_REG)
            \o memory("right_addr", k)
            \o action("right", Load(size, MEM_OPERAND_SIZE), <<"right_addr">>)
            \o integer_smul("out", op[size], size, overflow[size], carry[size],
                  "left", "right")
            \o eq("out", "left")
        ri(size, k) ==
               param("left", INT_REG)
            \o param("right", Immediate(32))
            \o integer_smul("_", op[size], size, overflow[size], carry[size], "left",
                  "right")
        mi(size, k) ==
               memory("left_addr", k)
            \o action("left", Load(size, MEM_OPERAND_SIZE), <<"left_addr">>)
            \o param("right", Immediate(32))
            \o integer_smul("_", op[size], size, overflow[size], carry[size], "left",
                  "right")
    IN  ForEachSize(sizes, [t \in Range(sizes) |->
            << instr(t[2], [k \in 1..MEMORY_VARIANTS |-> rr(t[1], k)]),
               instr(t[3], [k \in 1..MEMORY_VARIANTS |-> rm(t[1], k)]),
               instr(t[4], [k \in 1..MEMORY_VARIANTS |-> ri(t[1], k)]),
               instr(t[5], [k \in 1..MEMORY_VARIANTS |-> mi(t[1], k)]) >>])

\* MachineSpecExt::arith_variants_shift: the count is RCX or an 8-bit immediate.
arith_variants_shift(op, overflow, carry, sizes) ==
    LET rr(size, k) ==
               param("left", INT_REG)
            \o param("right", Reg("RCX"))
            \o arith("out", op[size], overflow[size], carry[size], "left", "right")
            \o eq("left", "out")
        mr(size, k) ==
               memory("left_addr", k)
            \o param("right", Reg("RCX"))
            \o action("left", Load(size, MEM_OPERAND_SIZE), <<"left_addr">>)
            \o arith("out", op[size], overflow[size], carry[size], "left", "right")
            \o action("_", Store(size, MEM_OPERAND_SIZE), <<"out">>)
        ri(size, k) ==
               param("left", INT_REG)
            \o param("right", Immediate(8))
            \o arith("out", op[size], overflow[size], carry[size], "left", "right")
            \o eq("left", "out")
        mi(size, k) ==
               memory("left_addr", k)
            \o action("left", Load(size, MEM_OPERAND_SIZE), <<"left_addr">>)
            \o param("right", Immediate(8))
            \o arith("out", op[size], overflow[size], carry[size], "left", "right")
            \o action("_", Store(size, MEM_OPERAND_SIZE), <<"out">>)
    IN  ForEachSize(sizes, [t \in Range(sizes) |->
            << instr(t[2], [k \in 1..MEMORY_VARIANTS |-> rr(t[1], k)]),
               instr(t[3], [k \in 1..MEMORY_VARIANTS |-> mr(t[1], k)]),
               instr(t[4], [k \in 1..MEMORY_VARIANTS |-> ri(t[1], k)]),
               instr(t[5], [k \in 1..MEMORY_VARIANTS |-> mi(t[1], k)]) >>])

(***************************************************************************)
(* x64::spec.  The machine specification: the InstrDefs in the order they  *)
(* are registered.                                                         *)
(***************************************************************************)
spec ==
    LET mul_r(size, k) ==
               param("left", INT_REG)
            \o param("right", INT_REG)
            \o integer_umul("_", UMul(size), size, IsNonZero, IsNonZero, "left", "right")
        mul_m(size, k) ==
               param("left", INT_REG)
            \o memory("right_addr", k)
            \o action("right", Load(size, MEM_OPERAND_SIZE), <<"right_addr">>)
            \o integer_umul("_", UMul(size), size, IsNonZero, IsNonZero, "left", "right")
        cmp_rr(k) ==
               param("left", INT_REG)
            \o param("right", INT_REG)
            \o arith("_", Sub(32), SubOverflowS(32), SubOverflowU(32), "left", "right")
        cmp_rm(k) ==
               param("left", INT_REG)
            \o memory("right_addr", k)
            \o action("right", Load(32, MEM_OPERAND_SIZE), <<"right_addr">>)
            \o arith("_", Sub(32), SubOverflowS(32), SubOverflowU(32), "left", "right")
        cmp_mr(k) ==
               memory("left_addr", k)
            \o action("left", Load(32, MEM_OPERAND_SIZE), <<"left_addr">>)
            \o param("right", INT_REG)
            \o arith("_", Sub(32), SubOverflowS(32), SubOverflowU(32), "left", "right")
    IN
           arith_variants(G.Add, G.AddOverflowS, G.AddOverflowU,               << <<32, "add r32, r32", "add r32, m32", "add m32, r32", "add r32, i32", "add m32, i32">>,
                  <<64, "add r64, r64", "add r64, m64", "add m64, r64", "add r64, i32", "add m64, i32">> >>)
        \o arith_variants_carry(G.AddWithCarry, G.AddWithCarryOverflowS, G.AddWithCarryOverflowU,               << <<32, "adc r32, r32", "adc r32, m32", "adc m32, r32", "adc r32, i32", "adc m32, i32">>,
                  <<64, "adc r64, r64", "adc r64, m64", "adc m64, r64", "adc r64, i32", "adc m64, i32">> >>)
        \o arith_variants_fp(G.AddFp,               << <<32, "addss r32, r32", "addss r32, m32">>,
                  <<64, "addsd r64, r64", "addsd r64, m64">> >>)
        \o arith_variants_logical(G.And,               << <<32, "and r32, r32", "and r32, m32", "and m32, r32", "and r32, i32", "and m32, i32">>,
                  <<64, "and r64, r64", "and r64, m64", "and m64, r64", "and r64, i32", "and m64, i32">> >>)
        \o arith_variants_fp(G.PackedAnd,               << <<32, "andps r128, r128", "andps r128, m128">>,
                  <<64, "andpd r128, r128", "andpd r128, m128">> >>)
        \o arith_variants_fp(G.PackedOr,               << <<32, "orps r128, r128", "orps r128, m128">>,
                  <<64, "orpd r128, r128", "orpd r128, m128">> >>)
        \o arith_variants_fp(G.PackedXor,               << <<32, "xorps r128, r128", "xorps r128, m128">>,
                  <<64, "xorpd r128, r128", "xorpd r128, m128">> >>)
        \o arith_variants_fp(G.DivFp,               << <<32, "divss r32, r32", "divss r32, m32">>,
                  <<64, "divsd r64, r64", "divsd r64, m64">> >>)
        \o arith_variants_fp(G.MaxFp,               << <<32, "maxss r32, r32", "maxss r32, m32">>,
                  <<64, "maxsd r64, r64", "maxsd r64, m64">> >>)
        \o arith_variants_fp(G.MinFp,               << <<32, "minss r32, r32", "minss r32, m32">>,
                  <<64, "minsd r64, r64", "minsd r64, m64">> >>)
        \o arith_variants_fp(G.MulFp,               << <<32, "mulss r32, r32", "mulss r32, m32">>,
                  <<64, "mulsd r64, r64", "mulsd r64, m64">> >>)
        \o arith_variants_fp(G.SqrtFp,               << <<32, "sqrtss r32, r32", "sqrtss r32, m32">>,
                  <<64, "sqrtsd r64, r64", "sqrtsd r64, m64">> >>)
        \o arith_variants_logical(G.Or,               << <<32, "or r32, r32", "or r32, m32", "or m32, r32", "or r32, i32", "or m32, i32">>,
                  <<64, "or r64, r64", "or r64, m64", "or m64, r64", "or r64, i32", "or m64, i32">> >>)
        \o arith_variants_logical(G.Xor,               << <<32, "xor r32, r32", "xor r32, m32", "xor m32, r32", "xor r32, i32", "xor m32, i32">>,
                  <<64, "xor r64, r64", "xor r64, m64", "xor m64, r64", "xor r64, i32", "xor m64, i32">> >>)
        \o arith_variants(G.Sub, G.SubOverflowS, G.SubOverflowU,               << <<32, "sub r32, r32", "sub r32, m32", "sub m32, r32", "sub r32, i32", "sub m32, i32">>,
                  <<64, "sub r64, r64", "sub r64, m64", "sub m64, r64", "sub r64, i32", "sub m64, i32">> >>)
        \o arith_variants_carry(G.SubWithCarry, G.SubWithCarryOverflowS, G.SubWithCarryOverflowU,               << <<32, "sbb r32, r32", "sbb r32, m32", "sbb m32, r32", "sbb r32, i32", "sbb m32, i32">>,
                  <<64, "sbb r64, r64", "sbb r64, m64", "sbb m64, r64", "sbb r64, i32", "sbb m64, i32">> >>)
        \o arith_variants_fp(G.SubFp,               << <<32, "subss r32, r32", "subss r32, m32">>,
                  <<64, "subsd r64, r64", "subsd r64, m64">> >>)
        \o arith_variants_shift(G.ShiftArithR, G.Undefined, G.ShiftArithRUnderflowS,               << <<32, "sar r32, cl", "sar m32, cl", "sar r32, i8", "sar m32, i8">>,
                  <<64, "sar r64, cl", "sar m64, cl", "sar r64, i8", "sar m64, i8">> >>)
        \o arith_variants_shift(G.ShiftL, G.Undefined, G.ShiftLOverflow,               << <<32, "shl r32, cl", "shl m32, cl", "shl r32, i8", "shl m32, i8">>,
                  <<64, "shl r64, cl", "shl m64, cl", "shl r64, i8", "shl m64, i8">> >>)
        \o arith_variants_shift(G.ShiftLogicalR, G.Undefined, G.ShiftLogicalRUnderflowU,               << <<32, "shr r32, cl", "shr m32, cl", "shr r32, i8", "shr m32, i8">>,
                  <<64, "shr r64, cl", "shr m64, cl", "shr r64, i8", "shr m64, i8">> >>)
        \o signed_multiply_variants(G.SMul, G.MulTrunc, G.MulTrunc,               << <<32, "imul r32, r32", "imul r32, m32", "imul r32, r32, imm32", "imul r32, m32, imm32">>,
                  <<64, "imul r64, r64", "imul r64, m64", "imul r64, r64, imm32", "imul r64, m64, imm32">> >>)
        \o move_variants(G.Move,               << <<8, "mov r8, r8", "mov r8, m8", "mov m8, r8", "mov r8, i8", "mov m8, i8">>,
                  <<16, "mov r16, r16", "mov r16, m16", "mov m16, r16", "mov r16, i16", "mov m16, i16">>,
                  <<32, "mov r32, r32", "mov r32, m32", "mov m32, r32", "mov r32, i32", "mov m32, i32">>,
                  <<64, "mov r64, r64", "mov r64, m64", "mov m64, r64", "mov r64, i32", "mov m64, i32">> >>)
        \o move_transfer_variants(G.Move,               << <<32, "movd f32, r32", "movd f32, m32", "movd r32, f32", "movd m32, f32">>,
                  <<64, "movq f64, r64", "movq f64, m64", "movq r64, f64", "movq m64, f64">> >>)
        \o move_packed_variants(G.Move,               << <<32, "movaps f128, f128", "movaps f128, m128", "movaps m128, f128">>,
                  <<64, "movapd f128, f128", "movapd f128, m128", "movapd m128, f128">> >>)
        \o << instr("mul r32", [k \in 1..MEMORY_VARIANTS |-> mul_r(32, k)]),
               instr("mul m32", [k \in 1..MEMORY_VARIANTS |-> mul_m(32, k)]),
               instr("mul r64", [k \in 1..MEMORY_VARIANTS |-> mul_r(64, k)]),
               instr("mul m64", [k \in 1..MEMORY_VARIANTS |-> mul_m(64, k)]),
               instr("cmp r32, r32", [k \in 1..MEMORY_VARIANTS |-> cmp_rr(k)]),
               instr("cmp r32, m32", [k \in 1..MEMORY_VARIANTS |-> cmp_rm(k)]),
               instr("cmp m32, r32", [k \in 1..MEMORY_VARIANTS |-> cmp_mr(k)]) >>

(***************************************************************************)
(* Reading a form.  An alternative a of an InstrDef is the builder record  *)
(* its closure produced.                                                   *)
(***************************************************************************)
VARIABLE
    table       \* the machine specification the assembler was built with

Alt(i, k) == table[i].alts[k]

\* The Vars constrained to the same location as v.
EqClass(a, v) == {v} \cup {w \in 1..a.n : <<v, w>> \in a.eqs \/ <<w, v>> \in a.eqs}

\* The parameter steps that give Var v its location, the action steps that
\* produce it, and whether parameter step p is overwritten by the form.
ParamSteps(a, v) ==
    {j \in DOMAIN a.steps : a.steps[j].kind = "param" /\ a.steps[j].v \in EqClass(a, v)}
ProducerSteps(a, v) ==
    {j \in DOMAIN a.steps : a.steps[j].kind = "action" /\ a.steps[j].v = v}
Written(a, p) ==
    \E j \in DOMAIN a.steps :
        a.steps[j].kind = "action" /\ a.steps[j].v \in EqClass(a, a.steps[p].v)

\* INTERNAL: an action output that no register and no parameter locates.
Internal(a, j) == a.steps[j].reg = "" /\ ParamSteps(a, a.steps[j].v) = {}

(***************************************************************************)
(* Low IR.  An instruction has one output Var, an operation and its input  *)
(* Vars.  A Var's location is a register, an immediate of some width, or   *)
(* none (not yet produced, or no longer held anywhere).                    *)
(***************************************************************************)
Instr(out, op, ins) == [out |-> out, op |-> op, ins |-> ins]

NoLoc == [kind |-> "none", reg |-> "", bits |-> 0]
InReg(r) == [kind |-> "reg", reg |-> r, bits |-> 0]
Imm(bits) == [kind |-> "imm", reg |-> "", bits |-> bits]

\* Whether location l satisfies the constraint c of a parameter step.
Satisfies(c, l) ==
    CASE c.kind \in {"class", "reg"} -> l.kind = "reg" /\ l.reg \in Range(c.regs)
      [] c.kind = "imm" -> l.kind = "imm" /\ l.bits <= c.bits
      [] OTHER -> FALSE

\* The Vars that the instructions at positions p, p + 1, ... of code read.
UsedFrom(code, p) == UNION {Range(code[t].ins) : t \in p..Len(code)}

(***************************************************************************)
(* Candidates.  A candidate is a form i, an alternative k of its memory    *)
(* operand and, for each Low IR instruction consumed by the match, the     *)
(* action step m[t] of the form that realises it.  w is the sequence of    *)
(* instructions consumed so far.                                           *)
(***************************************************************************)
Candidate(i, k, m) == [i |-> i, k |-> k, m |-> m]

\* The memoised query results: for each operation of the table, the action
\* steps <<form, alternative, step>> that perform it.
ActionSites ==
    UNION {UNION {{<<i, k, j>> : j \in {x \in DOMAIN table[i].alts[k].steps :
                                            table[i].alts[k].steps[x].kind = "action"}}
                  : k \in DOMAIN table[i].alts} : i \in DOMAIN table}

OpsOfTable == {Alt(t[1], t[2]).steps[t[3]].op : t \in ActionSites}

Sites(op) == {t \in ActionSites : Alt(t[1], t[2]).steps[t[3]].op = op}

Memo == [op \in OpsOfTable |-> Sites(op)]

\* A bitmask of the forms whose first action step performs the operation.
MaskOfFirstStep(op) ==
    {t[1] : t \in {x \in Sites(op) :
                      \A j \in 1..(x[3] - 1) : Alt(x[1], x[2]).steps[j].kind # "action"}}

\* The per-operation bitmask: the forms that contain the operation at all.
Mask(op) == {t[1] : t \in Sites(op)}

\* Each instruction is matched by its own action step of the same operation
\* and arity.
Structural(a, m, w) ==
    /\ \A t \in DOMAIN m :
          /\ a.steps[m[t]].kind = "action"
          /\ a.steps[m[t]].op = w[t].op
          /\ Len(a.steps[m[t]].ins) = Len(w[t].ins)
    /\ \A t, u \in DOMAIN m : m[t] = m[u] => t = u

\* The binding: the (Low IR Var, template Var) pairs of the consumed steps.
Binding(a, m, w) ==
    UNION {{<<w[t].out, a.steps[m[t]].v>>}
           \cup {<<w[t].ins[q], a.steps[m[t]].ins[q]>> : q \in DOMAIN w[t].ins}
           : t \in DOMAIN m}

\* A binding check that lets a Low IR Var into any number of slots.
ConsistentUnchecked(a, m, w) == TRUE

\* A Low IR Var maps to one template slot, and a slot holds one Low IR Var.
Consistent(a, m, w) ==
    \A x, y \in Binding(a, m, w) : (x[1] = y[1]) <=> (x[2] = y[2])

\* Data flow: an input that the form computes itself must come from a step
\* consumed earlier in the match; any other input is a parameter, whose
\* constraint the current location of the Low IR Var must satisfy.
DataFlow(a, m, w, loc) ==
    \A t \in DOMAIN m : \A q \in DOMAIN w[t].ins :
        LET s == a.steps[m[t]].ins[q]
        IN  IF ProducerSteps(a, s) # {}
            THEN \E u \in 1..(t - 1) : m[u] \in ProducerSteps(a, s)
            ELSE \E p \in ParamSteps(a, s) : Satisfies(a.steps[p].c, loc[w[t].ins[q]])

Compatible(a, m, w, loc) ==
    /\ Structural(a, m, w)
    /\ Consistent(a, m, w)
    /\ DataFlow(a, m, w, loc)

\* M for the first instruction of a match: the query of the bitmask, then the
\* binding check.
InitialCandidates(w, loc) ==
    {Candidate(t[1], t[2], <<t[3]>>) :
        t \in {x \in Sites(w[1].op) : Compatible(Alt(x[1], x[2]), <<x[3]>>, w, loc)}}

\* A refinement that adds the query result of the newest instruction to the
\* members of M that match it (the `or` of the bitfields instead of the `and`).
RefinedOrQueried(M, w, loc) ==
    UNION {{Candidate(c.i, c.k, Append(c.m, j)) :
               j \in {x \in DOMAIN Alt(c.i, c.k).steps :
                         Compatible(Alt(c.i, c.k), Append(c.m, x), w, loc)}}
           : c \in M}
    \cup InitialCandidates(<<w[Len(w)]>>, loc)

\* M': the members of M that also match the newest instruction of w.
RefinedCandidates(M, w, loc) ==
    LET mask == Mask(w[Len(w)].op)
    IN  UNION {{Candidate(c.i, c.k, Append(c.m, j)) :
                   j \in {x \in DOMAIN Alt(c.i, c.k).steps :
                             Compatible(Alt(c.i, c.k), Append(c.m, x), w, loc)}}
               : c \in {d \in M : d.i \in mask}}

(***************************************************************************)
(* Whether a candidate could be emitted, given the Vars that instructions  *)
(* after the match still read (live) and where every Var currently is.     *)
(***************************************************************************)
\* The parameter steps that no consumed instruction binds.
BoundSlots(a, m, w) == {x[2] : x \in Binding(a, m, w)}
UnboundParams(a, m, w) ==
    {p \in DOMAIN a.steps :
        a.steps[p].kind = "param" /\ EqClass(a, a.steps[p].v) \cap BoundSlots(a, m, w) = {}}

\* The registers the form writes: the destination of every action step,
\* consumed or not, and the register of every bound operand it overwrites.
WrittenRegs(a, m, w, loc) ==
    {a.steps[j].reg : j \in {x \in DOMAIN a.steps : a.steps[x].reg # ""}}
    \cup {loc[x[1]].reg :
             x \in {y \in Binding(a, m, w) :
                       /\ loc[y[1]].kind = "reg"
                       /\ \E p \in DOMAIN a.steps :
                             /\ a.steps[p].kind = "param"
                             /\ a.steps[p].v = y[2]
                             /\ Written(a, p)}}
    \cup {a.steps[p].c.regs[1] :
             p \in {x \in DOMAIN a.steps :
                       /\ a.steps[x].kind = "param"
                       /\ a.steps[x].c.kind = "reg"
                       /\ Written(a, x)}}

\* A clobber check that lets every form through.
ClobberUnchecked(a, m, w, loc, live) == TRUE

\* No value that is still needed sits in a register the form writes.
ClobberFree(a, m, w, loc, live) ==
    LET written == WrittenRegs(a, m, w, loc)
    IN  \A z \in live : loc[z].kind = "reg" => loc[z].reg \notin written

\* A check of the results that takes INTERNAL for a location.
ResultsUnchecked(a, m, w, live) == TRUE

\* Every result that is still needed gets a real location.
ResultsLocated(a, m, w, live) ==
    \A t \in DOMAIN m : w[t].out \in live => ~Internal(a, m[t])

\* The registers the allocator may give to unbound parameter step p: those of
\* its constraint, without the ones holding a live value if p is overwritten.
FreeRegs(a, p, loc, live) ==
    {r \in Range(a.steps[p].c.regs) :
        Written(a, p) => \A z \in live : loc[z] # InReg(r)}

Allocatable(a, m, w, loc, live) ==
    \A p \in UnboundParams(a, m, w) :
        a.steps[p].c.kind \in {"class", "reg"} => FreeRegs(a, p, loc, live) # {}

Emittable(c, w, loc, live) ==
    LET a == Alt(c.i, c.k)
    IN  /\ ResultsLocated(a, c.m, w, live)
        /\ ClobberFree(a, c.m, w, loc, live)
        /\ Allocatable(a, c.m, w, loc, live)

(***************************************************************************)
(* Filling a chosen candidate with locations (the allocator is the first   *)
(* free register of the class, in declaration order).                      *)
(***************************************************************************)
FirstFree(a, p, loc, live) ==
    LET rs == a.steps[p].c.regs
        free == FreeRegs(a, p, loc, live)
        x == CHOOSE y \in DOMAIN rs : rs[y] \in free /\ \A z \in 1..(y - 1) : rs[z] \notin free
    IN  rs[x]

\* The location of parameter step p in the emitted instruction.
ParamLoc(a, p, m, w, loc, live) ==
    LET bound == {y \in Binding(a, m, w) : y[2] = a.steps[p].v}
    IN  IF a.steps[p].c.kind = "reg" THEN InReg(a.steps[p].c.regs[1])
        ELSE IF bound # {} THEN loc[(CHOOSE y \in bound : TRUE)[1]]
        ELSE IF a.steps[p].c.kind = "class" THEN InReg(FirstFree(a, p, loc, live))
        ELSE NoLoc

\* Where the output of action step j is after the instruction.
OutLoc(a, j, m, w, loc, live) ==
    IF a.steps[j].reg # "" THEN InReg(a.steps[j].reg)
    ELSE IF ParamSteps(a, a.steps[j].v) # {}
    THEN ParamLoc(a, CHOOSE p \in ParamSteps(a, a.steps[j].v) : TRUE, m, w, loc, live)
    ELSE NoLoc

\* Every register the emitted instruction writes.
Writes(a, m, w, loc, live) ==
    WrittenRegs(a, m, w, loc)
    \cup {ParamLoc(a, p, m, w, loc, live).reg :
             p \in {x \in UnboundParams(a, m, w) :
                       a.steps[x].c.kind = "class" /\ Written(a, x)}}

\* The Low IR Vars whose register the emitted instruction overwrites.
Killed(a, m, w, loc, live) ==
    LET writes == Writes(a, m, w, loc, live)
    IN  {z \in DOMAIN loc : loc[z].kind = "reg" /\ loc[z].reg \in writes}

LocAfter(a, m, w, loc, live) ==
    LET killed == Killed(a, m, w, loc, live)
        outs == {w[t].out : t \in DOMAIN m}
    IN  [z \in DOMAIN loc |->
            IF z \in outs
            THEN OutLoc(a, m[CHOOSE t \in DOMAIN m : w[t].out = z], m, w, loc, live)
            ELSE IF z \in killed THEN NoLoc
            ELSE loc[z]]

(***************************************************************************)
(* The streams that are matched.  Vars 0..9 are defined before the stream  *)
(* starts; instruction outputs are numbered from 10.                       *)
(***************************************************************************)
Env ==
    [z \in 0..19 |->
        CASE z = 0 -> InReg("RAX")
          [] z = 1 -> InReg("RBX")
          [] z = 2 -> Imm(32)
          [] z = 3 -> Imm(3)
          [] z = 4 -> InReg("RCX")
          [] z = 5 -> InReg("RDX")
          [] z = 6 -> InReg("XMM0")
          [] z = 7 -> InReg("XMM1")
          [] z = 8 -> InReg("CF")
          [] z = 9 -> InReg("RSI")
          [] OTHER -> NoLoc]

\* %10 = add %0, %1; %11 = is-zero %10
AddTest(size) == << Instr(10, Add(size), <<0, 1>>), Instr(11, IsZero, <<10>>) >>

\* %10 = add %0, %2 (an immediate); %11 = load %10
AddLoad(size) ==
    << Instr(10, Add(MEM_OPERAND_SIZE), <<0, 2>>),
       Instr(11, Load(size, MEM_OPERAND_SIZE), <<10>>) >>

\* The add and its test, then a store of the sum.
AddTestStore(size) ==
    AddTest(size) \o << Instr(12, Store(size, MEM_OPERAND_SIZE), <<10>>) >>

\* The address computation and the load, then another use of the address.
AddLoadReuse(size) == AddLoad(size) \o << Instr(12, And(size), <<10, 1>>) >>

\* The address computation and the load, then a use of the value that has
\* been in RDX since before the stream.
AddLoadKeep(size) == AddLoad(size) \o << Instr(12, And(size), <<5, 1>>) >>

\* An unsigned multiply, then a use of the value in RDX.
UMulKeep(size) ==
    << Instr(10, UMul(size), <<0, 1>>), Instr(11, And(size), <<5, 1>>) >>

\* The memory operand of the module documentation: base %0, displacement %2,
\* index %1 scaled by %3, then the load and the add to %4.
MemOperand(size) ==
    << Instr(10, Add(MEM_OPERAND_SIZE), <<0, 2>>),
       Instr(11, ShiftL(MEM_OPERAND_SIZE), <<1, 3>>),
       Instr(12, Add(MEM_OPERAND_SIZE), <<10, 11>>),
       Instr(13, Load(size, MEM_OPERAND_SIZE), <<12>>),
       Instr(14, Add(size), <<4, 13>>) >>

\* The same address computed in the order of the last alternative of
\* InstrBuilderExt::memory: the shift, the add of the base, the add of the
\* displacement.
MemOperandInOrder(size) ==
    << Instr(10, ShiftL(MEM_OPERAND_SIZE), <<1, 3>>),
       Instr(11, Add(MEM_OPERAND_SIZE), <<0, 10>>),
       Instr(12, Add(MEM_OPERAND_SIZE), <<11, 2>>),
       Instr(13, Load(size, MEM_OPERAND_SIZE), <<12>>),
       Instr(14, Add(size), <<4, 13>>) >>

\* %10 = add %0, %1; %11 = sub %1, %10; %12 = add_carry %0, %1
CarryAlone(size) ==
    << Instr(10, Add(size), <<0, 1>>),
       Instr(11, Sub(size), <<1, 10>>),
       Instr(12, AddOverflowU(size), <<0, 1>>) >>

\* An add, then an operation on the sum that no form performs with an add.
AddThenAnd(size) ==
    << Instr(10, Add(size), <<0, 1>>), Instr(11, And(size), <<10, 4>>) >>

\* The add and its test, then an operation that reads one Var twice.
AddTestSelf(size) == AddTest(size) \o << Instr(12, And(size), <<1, 1>>) >>

\* A logical operation, then an add with the carry that has been in CF since
\* before the stream.
AndKeepCarry(size) ==
    << Instr(10, And(size), <<0, 1>>), Instr(11, AddWithCarry(size), <<10, 5, 8>>) >>

\* %10 = smul %0, %2 (an immediate); then a use of the product and of %0.
SMulKeep(size) ==
    << Instr(10, SMul(size), <<0, 2>>), Instr(11, And(size), <<10, 0>>) >>

\* The first n address steps of alternative k of InstrBuilderExt::memory, on
\* base %0, index %1, displacement %2 and scale %3, without the load; then a
\* use of the base and the index, and a use of the address computed so far.
AddressSteps(k) ==
    CASE k = 2 -> << Instr(10, Add(MEM_OPERAND_SIZE), <<0, 1>>) >>
      [] k = 3 -> << Instr(10, Add(MEM_OPERAND_SIZE), <<0, 2>>) >>
      [] k = 4 -> << Instr(10, Add(MEM_OPERAND_SIZE), <<0, 1>>),
                     Instr(11, Add(MEM_OPERAND_SIZE), <<10, 2>>) >>
      [] k = 5 -> << Instr(10, ShiftL(MEM_OPERAND_SIZE), <<1, 3>>),
                     Instr(11, Add(MEM_OPERAND_SIZE), <<0, 10>>),
                     Instr(12, Add(MEM_OPERAND_SIZE), <<11, 2>>) >>
      [] OTHER -> <<>>

AddressPrefix(k, n) ==
    SubSeq(AddressSteps(k), 1, n)
    \o << Instr(18, And(MEM_OPERAND_SIZE), <<0, 1>>),
          Instr(19, And(MEM_OPERAND_SIZE), <<9 + n, 4>>) >>

AddressPrefixes ==
    UNION {{AddressPrefix(k, n) : n \in 1..Len(AddressSteps(k))} : k \in 2..MEMORY_VARIANTS}

\* n times the add and its test, each add on the sum before it and %1.
MaxPairs == 2

RECURSIVE Pairs(_, _)
Pairs(n, size) ==
    IF n = 0 THEN <<>>
    ELSE Pairs(n - 1, size)
         \o << Instr(8 + 2 * n, Add(size), <<IF n = 1 THEN 0 ELSE 6 + 2 * n, 1>>),
               Instr(9 + 2 * n, IsZero, <<8 + 2 * n>>) >>

\* One instruction of every generic operation: the integer operations on
\* %0 and %1, the floating-point ones on %6 and %7, the shifts by %4 (in RCX),
\* the carry operations with %8 (in CF), the flag operations on %0.
Sizes == {32, 64}

SingleOps ==
    UNION {{ Instr(10, Add(z), <<0, 1>>), Instr(10, Sub(z), <<0, 1>>),
             Instr(10, And(z), <<0, 1>>), Instr(10, Or(z), <<0, 1>>),
             Instr(10, Xor(z), <<0, 1>>), Instr(10, Move(z), <<0, 1>>),
             Instr(10, SMul(z), <<0, 1>>), Instr(10, UMul(z), <<0, 1>>),
             Instr(10, AddWithCarry(z), <<0, 1, 8>>),
             Instr(10, SubWithCarry(z), <<0, 1, 8>>),
             Instr(10, ShiftL(z), <<0, 4>>), Instr(10, ShiftArithR(z), <<0, 4>>),
             Instr(10, ShiftLogicalR(z), <<0, 4>>),
             Instr(10, AddFp(z), <<6, 7>>), Instr(10, SubFp(z), <<6, 7>>),
             Instr(10, MulFp(z), <<6, 7>>), Instr(10, DivFp(z), <<6, 7>>),
             Instr(10, MaxFp(z), <<6, 7>>), Instr(10, MinFp(z), <<6, 7>>),
             Instr(10, SqrtFp(z), <<6, 7>>), Instr(10, PackedAnd(z), <<6, 7>>),
             Instr(10, PackedOr(z), <<6, 7>>), Instr(10, PackedXor(z), <<6, 7>>),
             Instr(10, AddOverflowS(z), <<0>>), Instr(10, AddOverflowU(z), <<0>>),
             Instr(10, SubOverflowS(z), <<0>>), Instr(10, SubOverflowU(z), <<0>>),
             Instr(10, AddWithCarryOverflowS(z), <<0>>),
             Instr(10, AddWithCarryOverflowU(z), <<0>>),
             Instr(10, SubWithCarryOverflowS(z), <<0>>),
             Instr(10, SubWithCarryOverflowU(z), <<0>>),
             Instr(10, ShiftLOverflow(z), <<0>>),
             Instr(10, ShiftArithRUnderflowS(z), <<0>>),
             Instr(10, ShiftLogicalRUnderflowU(z), <<0>>),
             Instr(10, MulTrunc(z), <<0>>), Instr(10, Undefined(z), <<0>>),
             Instr(10, Load(z, MEM_OPERAND_SIZE), <<0>>),
             Instr(10, Store(z, MEM_OPERAND_SIZE), <<0>>) } : z \in Sizes}
    \cup { Instr(10, IsZero, <<0>>), Instr(10, IsNonZero, <<0>>),
           Instr(10, LtZero, <<0>>), Instr(10, Clear, <<>>),
           Instr(10, OverflowSigned, <<0>>), Instr(10, OverflowUnsigned, <<0>>) }

Programs ==
    UNION {{ AddTest(z), AddLoad(z), AddTestStore(z), AddLoadReuse(z),
             AddLoadKeep(z), UMulKeep(z), MemOperand(z), MemOperandInOrder(z),
             CarryAlone(z), AddThenAnd(z), AddTestSelf(z),
             AndKeepCarry(z) } : z \in Sizes}
    \cup {<<CarryAlone(z)[3]>> : z \in Sizes}
    \cup UNION {{SMulKeep(z), <<SMulKeep(z)[1]>>} : z \in Sizes}
    \cup AddressPrefixes
    \cup {Pairs(n, z) : n \in 1..MaxPairs, z \in Sizes}
    \cup {<<x>> : x \in SingleOps}

(***************************************************************************)
(* The matching loop.                                                      *)
(***************************************************************************)
VARIABLES
    stream,     \* the Low IR instructions of the function
    loc,        \* where each Low IR Var currently is
    cursor,     \* CD: the first instruction of the match in progress
    len,        \* how many instructions the match has consumed
    M,          \* the list of matches of the query and its refinements
    pc,         \* "query", "refine", "commit", "done" or "failed"
    emitted,    \* the instructions written to the byte buffer so far
    decl,       \* the sizes of the *_variants call that is still being built
    other       \* the matching of another function, while it is not running

vars == <<table, stream, loc, cursor, len, M, pc, emitted, decl, other>>

\* Nothing is being built, and no other function is being matched.
Built == <<>>
Alone == [id |-> 0]

Window(n) == SubSeq(stream, cursor, cursor + n - 1)
Live(n) == UsedFrom(stream, cursor + n)

\* The members of a list of matches that could be emitted for a match of n
\* instructions.
CouldEmit(C, n) == {c \in C : Emittable(c, Window(n), loc, Live(n))}

Init ==
    /\ table = spec
    /\ stream \in Programs
    /\ loc = Env
    /\ cursor = 1
    /\ len = 0
    /\ M = {}
    /\ pc = "query"
    /\ emitted = <<>>
    /\ decl = Built
    /\ other = Alone

\* Q is made from the instruction at the cursor and passed to the assembler;
\* some match of M can be emitted.
Query ==
    /\ pc = "query"
    /\ LET M0 == InitialCandidates(Window(1), loc)
       IN  /\ CouldEmit(M0, 1) # {}
           /\ M' = M0
    /\ len' = 1
    /\ pc' = "refine"
    /\ UNCHANGED <<decl, other, table, stream, loc, cursor, emitted>>

\* No match of M can be emitted: the error is returned.
Fail ==
    /\ pc = "query"
    /\ CouldEmit(InitialCandidates(Window(1), loc), 1) = {}
    /\ pc' = "failed"
    /\ UNCHANGED <<decl, other, table, stream, loc, cursor, len, M, emitted>>

\* A loop that goes on whenever M' is not empty.
RefineBlind ==
    /\ pc = "refine"
    /\ cursor + len <= Len(stream)
    /\ LET M1 == RefinedCandidates(M, Window(len + 1), loc)
       IN  /\ M1 # {}
           /\ M' = M1
    /\ len' = len + 1
    /\ UNCHANGED <<decl, other, table, stream, loc, cursor, pc, emitted>>

\* M' has a match that could be emitted: M becomes M' and the loop repeats.
Refine ==
    /\ pc = "refine"
    /\ cursor + len <= Len(stream)
    /\ LET M1 == RefinedCandidates(M, Window(len + 1), loc)
       IN  /\ CouldEmit(M1, len + 1) # {}
           /\ M' = M1
    /\ len' = len + 1
    /\ UNCHANGED <<decl, other, table, stream, loc, cursor, pc, emitted>>

\* A loop that may be left although M' has a match that could be emitted.
StopEarly ==
    /\ pc = "refine"
    /\ pc' = "commit"
    /\ UNCHANGED <<decl, other, table, stream, loc, cursor, len, M, emitted>>

\* A loop that returns the error when M' has no match that could be emitted.
StopFails ==
    /\ pc = "refine"
    /\ \/ /\ cursor + len > Len(stream)
          /\ pc' = "commit"
       \/ /\ cursor + len <= Len(stream)
          /\ CouldEmit(RefinedCandidates(M, Window(len + 1), loc), len + 1) = {}
          /\ pc' = "failed"
    /\ UNCHANGED <<decl, other, table, stream, loc, cursor, len, M, emitted>>

\* A loop that keeps the instruction it was left at in the match.
StopConsuming ==
    /\ pc = "refine"
    /\ \/ /\ cursor + len > Len(stream)
          /\ len' = len
       \/ /\ cursor + len <= Len(stream)
          /\ CouldEmit(RefinedCandidates(M, Window(len + 1), loc), len + 1) = {}
          /\ len' = len + 1
    /\ pc' = "commit"
    /\ UNCHANGED <<decl, other, table, stream, loc, cursor, M, emitted>>

\* The stream has ended, or M' is empty or has no match that could be
\* emitted: the loop is left with M as it is.
Stop ==
    /\ pc = "refine"
    /\ \/ cursor + len > Len(stream)
       \/ /\ cursor + len <= Len(stream)
          /\ CouldEmit(RefinedCandidates(M, Window(len + 1), loc), len + 1) = {}
    /\ pc' = "commit"
    /\ UNCHANGED <<decl, other, table, stream, loc, cursor, len, M, emitted>>

\* What is written for the chosen match c.
Emission(c) ==
    LET a == Alt(c.i, c.k)
    IN  [name |-> table[c.i].name,
         form |-> c.i,
         alt |-> c.k,
         variant |-> a.variant,
         start |-> cursor,
         len |-> len,
         steps |-> c.m,
         killed |-> Killed(a, c.m, Window(len), loc, Live(len))]

\* A commit that leaves the cursor after the instruction that was probed.
CommitPastProbe ==
    /\ pc = "commit"
    /\ \E c \in CouldEmit(M, len) :
          /\ emitted' = Append(emitted, Emission(c))
          /\ loc' = LocAfter(Alt(c.i, c.k), c.m, Window(len), loc, Live(len))
    /\ cursor' = cursor + len + 1
    /\ len' = 0
    /\ M' = {}
    /\ pc' = IF cursor + len + 1 > Len(stream) THEN "done" ELSE "query"
    /\ UNCHANGED <<decl, other, table, stream>>

\* A commit that takes any match of M for the best one.
CommitAny ==
    /\ pc = "commit"
    /\ \E c \in M :
          /\ emitted' = Append(emitted, Emission(c))
          /\ loc' = LocAfter(Alt(c.i, c.k), c.m, Window(len), loc, Live(len))
    /\ cursor' = cursor + len
    /\ len' = 0
    /\ M' = {}
    /\ pc' = IF cursor + len > Len(stream) THEN "done" ELSE "query"
    /\ UNCHANGED <<decl, other, table, stream>>

\* A commit that leaves the cursor where the match began.
CommitInPlace ==
    /\ pc = "commit"
    /\ \E c \in CouldEmit(M, len) :
          /\ emitted' = Append(emitted, Emission(c))
          /\ loc' = LocAfter(Alt(c.i, c.k), c.m, Window(len), loc, Live(len))
    /\ cursor' = cursor
    /\ len' = 0
    /\ M' = {}
    /\ pc' = "query"
    /\ UNCHANGED <<decl, other, table, stream>>

\* The best match of M is filled in with locations and written.  Which match
\* is best is the target's policy: any match that could be emitted may be it.
Commit ==
    /\ pc = "commit"
    /\ \E c \in CouldEmit(M, len) :
          /\ emitted' = Append(emitted, Emission(c))
          /\ loc' = LocAfter(Alt(c.i, c.k), c.m, Window(len), loc, Live(len))
    /\ cursor' = cursor + len
    /\ len' = 0
    /\ M' = {}
    /\ pc' = IF cursor + len > Len(stream) THEN "done" ELSE "query"
    /\ UNCHANGED <<decl, other, table, stream>>

Next == Query \/ Fail \/ Refine \/ Stop \/ Commit

Spec == Init /\ [][Next]_vars

\* The loop is one sequential computation that runs until it returns: while
\* it has not returned, its next step is taken.  Every step of Next changes
\* pc or len, and in each of the three positions some step of Next is
\* possible (Query or Fail, Refine or Stop, and Commit, since M holds a match
\* that could be emitted whenever the loop is left), so a step of the loop is
\* described here by the position it leaves.
Running == pc \in {"query", "refine", "commit"}

Step ==
    /\ Running
    /\ pc' \in {"query", "refine", "commit", "done", "failed"}
    /\ len' \in 0..Len(stream)

FairSpec == Init /\ [][Next]_vars /\ WF_<<pc, len>>(Step)

(***************************************************************************)
(* Building a machine specification.  The specification is built as        *)
(* x64::spec() builds its own, up to and including its move_variants call; *)
(* the sizes of that call are the input.  decl holds the instr calls that  *)
(* move_variants still has to make, table the forms registered so far.     *)
(* Matching starts once the specification has been returned.               *)
(***************************************************************************)
MoveEntries ==
    { <<8, "mov r8, r8", "mov r8, m8", "mov m8, r8", "mov r8, i8", "mov m8, i8">>,
      <<16, "mov r16, r16", "mov r16, m16", "mov m16, r16", "mov r16, i16", "mov m16, i16">>,
      <<24, "mov r24, r24", "mov r24, m24", "mov m24, r24", "mov r24, i24", "mov m24, i24">>,
      <<32, "mov r32, r32", "mov r32, m32", "mov m32, r32", "mov r32, i32", "mov m32, i32">>,
      <<64, "mov r64, r64", "mov r64, m64", "mov m64, r64", "mov r64, i32", "mov m64, i32">> }

\* The sizes arguments: up to MaxSizes different entries, in any order.
MaxSizes == 2

SizeLists ==
    UNION {{s \in [1..n -> MoveEntries] : \A x, y \in 1..n : s[x] = s[y] => x = y}
           : n \in 1..MaxSizes}

\* The instr calls of move_variants for sizes, in the order it makes them.
RECURSIVE Declarations(_)
Declarations(sizes) ==
    IF sizes = <<>> THEN <<>>
    ELSE [f \in 1..5 |-> [entry |-> Head(sizes), f |-> f]] \o Declarations(Tail(sizes))

\* The forms that x64::spec() registers before it calls move_variants.
BeforeMoves(T) ==
    SubSeq(T, 1, (CHOOSE i \in DOMAIN T : T[i].name = "mov r8, r8") - 1)

\* The form that the instr call d declares, and whether its closure panics.
Declared(d) == move_variants(G.Move, <<d.entry>>)[d.f]
Panics(form) ==
    \E k \in DOMAIN form.alts : \E j \in DOMAIN form.alts[k].steps :
        form.alts[k].steps[j].kind = "param" /\ form.alts[k].steps[j].c = BadImmediateSize

BuildInit ==
    /\ \E T \in {spec} : table = BeforeMoves(T)
    /\ decl \in {Declarations(sizes) : sizes \in SizeLists}
    /\ stream \in {AddTest(32), <<Instr(10, Move(32), <<0, 1>>)>>}
    /\ loc = Env
    /\ cursor = 1
    /\ len = 0
    /\ M = {}
    /\ pc = "build"
    /\ emitted = <<>>
    /\ other = Alone

\* The next instr call: its closure runs and the form is registered.
Register ==
    /\ pc = "build"
    /\ decl # <<>>
    /\ ~Panics(Declared(Head(decl)))
    /\ table' = Append(table, Declared(Head(decl)))
    /\ decl' = Tail(decl)
    /\ UNCHANGED <<stream, loc, cursor, len, M, pc, emitted, other>>

\* The closure of the next instr call panics: nothing is returned.
Panic ==
    /\ pc = "build"
    /\ decl # <<>>
    /\ Panics(Declared(Head(decl)))
    /\ pc' = "panicked"
    /\ UNCHANGED <<table, decl, stream, loc, cursor, len, M, emitted, other>>

\* move_variants returns self and the specification is handed to the matcher.
Finish ==
    /\ pc = "build"
    /\ decl = <<>>
    /\ pc' = "query"
    /\ UNCHANGED <<table, decl, stream, loc, cursor, len, M, emitted, other>>

BuildNext == Register \/ Panic \/ Finish \/ Query \/ Fail \/ Refine \/ Stop \/ Commit

BuildSpec == BuildInit /\ [][BuildNext]_vars

(***************************************************************************)
(* Matching two functions in parallel over one specification.  The         *)
(* variables of the loop hold the matching that takes the next step; other *)
(* holds the matching that is waiting, and Switch lets it run.             *)
(***************************************************************************)
Waiting(id) ==
    [id |-> id, stream |-> stream, loc |-> loc, cursor |-> cursor, len |-> len,
     M |-> M, pc |-> pc, emitted |-> emitted]

ParPrograms == {AddTest(32), AddThenAnd(32), AddTestStore(32)}

ParInit ==
    /\ table = spec
    /\ stream \in ParPrograms
    /\ loc = Env
    /\ cursor = 1
    /\ len = 0
    /\ M = {}
    /\ pc = "query"
    /\ emitted = <<>>
    /\ decl = Built
    /\ \E code \in ParPrograms :
          other = [id |-> 2, stream |-> code, loc |-> Env, cursor |-> 1, len |-> 0,
                   M |-> {}, pc |-> "query", emitted |-> <<>>]

\* A matching that keeps the locations of the matching that ran before it.
SwitchSharingLoc ==
    /\ other.id # 0
    /\ other' = Waiting(3 - other.id)
    /\ stream' = other.stream
    /\ loc' = loc
    /\ cursor' = other.cursor
    /\ len' = other.len
    /\ M' = other.M
    /\ pc' = other.pc
    /\ emitted' = other.emitted
    /\ UNCHANGED <<table, decl>>

\* The waiting matching takes the next steps.
Switch ==
    /\ other.id # 0
    /\ other' = Waiting(3 - other.id)
    /\ stream' = other.stream
    /\ loc' = other.loc
    /\ cursor' = other.cursor
    /\ len' = other.len
    /\ M' = other.M
    /\ pc' = other.pc
    /\ emitted' = other.emitted
    /\ UNCHANGED <<table, decl>>

ParNext == Switch \/ Query \/ Fail \/ Refine \/ Stop \/ Commit

ParSpec == ParInit /\ [][ParNext]_vars

(***************************************************************************)
(* The loop run alone, as a function of the stream: the results it can end *)
(* with, for every choice of the best match.                               *)
(***************************************************************************)
CouldEmitOf(C, code, l, c, n) ==
    {x \in C : Emittable(x, SubSeq(code, c, c + n - 1), l, UsedFrom(code, c + n))}

\* The inner loop: the length at which it is left, and M at that length.
RECURSIVE LongestMatch(_, _, _, _, _)
LongestMatch(code, l, c, n, Mn) ==
    IF c + n > Len(code) THEN [len |-> n, M |-> Mn]
    ELSE IF CouldEmitOf(RefinedCandidates(Mn, SubSeq(code, c, c + n), l), code, l, c, n + 1) = {}
    THEN [len |-> n, M |-> Mn]
    ELSE LongestMatch(code, l, c, n + 1, RefinedCandidates(Mn, SubSeq(code, c, c + n), l))

EmissionOf(x, code, l, c, n) ==
    [name |-> table[x.i].name,
     form |-> x.i,
     alt |-> x.k,
     variant |-> Alt(x.i, x.k).variant,
     start |-> c,
     len |-> n,
     steps |-> x.m,
     killed |-> Killed(Alt(x.i, x.k), x.m, SubSeq(code, c, c + n - 1), l, UsedFrom(code, c + n))]

RECURSIVE Outcomes(_, _, _, _)
Outcomes(code, l, c, out) ==
    IF c > Len(code) THEN {[pc |-> "done", emitted |-> out]}
    ELSE IF CouldEmitOf(InitialCandidates(SubSeq(code, c, c), l), code, l, c, 1) = {}
    THEN {[pc |-> "failed", emitted |-> out]}
    ELSE UNION {UNION {Outcomes(code,
                                LocAfter(Alt(x.i, x.k), x.m, SubSeq(code, c, c + r.len - 1), l,
                                         UsedFrom(code, c + r.len)),
                                c + r.len,
                                Append(out, EmissionOf(x, code, l, c, r.len)))
                       : x \in CouldEmitOf(r.M, code, l, c, r.len)}
                : r \in {LongestMatch(code, l, c, 1, InitialCandidates(SubSeq(code, c, c), l))}}

(***************************************************************************)
(* Properties.                                                             *)
(***************************************************************************)
\* The form, the consumed instructions and the later uses of emission k.
FormOf(k) == Alt(emitted[k].form, emitted[k].alt)
Consumed(k) == SubSeq(stream, emitted[k].start, emitted[k].start + emitted[k].len - 1)
UsedAfter(k) == UsedFrom(stream, emitted[k].start + emitted[k].len)

\* C1. Maximal fusion: for the stream `add; is-zero of the sum` (operands in
\* integer registers of the class, the sum used by nothing else) matching
\* never fails, never commits more than one form, and the form it commits
\* consumes both instructions: its Add step, and an IsZero step that reads the
\* output of that Add step and is written to ZF.
C1_MaximalFusion ==
    stream \in {AddTest(z) : z \in Sizes} =>
        /\ pc # "failed"
        /\ Len(emitted) <= 1
        /\ pc = "done" => Len(emitted) = 1
        /\ \A k \in DOMAIN emitted :
              LET a == FormOf(k)
                  add == a.steps[emitted[k].steps[1]]
                  test == a.steps[emitted[k].steps[2]]
              IN  /\ emitted[k].start = 1
                  /\ emitted[k].len = 2
                  /\ add.op = stream[1].op
                  /\ test.op = IsZero
                  /\ test.ins = <<add.v>>
                  /\ test.reg = "ZF"

C1_Witness ==
    /\ stream = AddTest(32)
    /\ pc = "done"
    /\ Len(emitted) = 1
    /\ emitted[1].name = "add r32, r32"
    /\ emitted[1].len = 2

\* C2. Addressing fold: for the stream `add base, disp; load of the sum` (disp
\* an immediate, the sum used by nothing else) matching never fails and
\* commits one form only; the form consumes both instructions with the
\* base+displacement alternative of its memory operand, whose Add step
\* computes the address that the Load step reads.
C2_AddressingFold ==
    stream \in {AddLoad(z) : z \in Sizes} =>
        /\ pc # "failed"
        /\ Len(emitted) <= 1
        /\ pc = "done" => Len(emitted) = 1
        /\ \A k \in DOMAIN emitted :
              LET a == FormOf(k)
                  add == a.steps[emitted[k].steps[1]]
                  load == a.steps[emitted[k].steps[2]]
              IN  /\ emitted[k].start = 1
                  /\ emitted[k].len = 2
                  /\ emitted[k].variant = 3
                  /\ add.op = Add(MEM_OPERAND_SIZE)
                  /\ \E p \in ParamSteps(a, add.ins[1]) : a.steps[p].c = INT_REG
                  /\ \E p \in ParamSteps(a, add.ins[2]) :
                        a.steps[p].c = Immediate(MEM_OPERAND_SIZE)
                  /\ load.op = stream[2].op
                  /\ load.ins = <<add.v>>

C2_Witness ==
    /\ stream = AddLoad(32)
    /\ pc = "done"
    /\ Len(emitted) = 1
    /\ emitted[1].name = "mov r32, m32"
    /\ emitted[1].variant = 3
    /\ emitted[1].len = 2

\* C3. Single-operation floor: matching a stream of exactly one instruction
\* of a generic operation never fails.
C3_SingleOperationFloor == Len(stream) = 1 => pc # "failed"

\* C4. Clobber rejection: no committed form writes a register that holds, at
\* the time of the commit, a value that an instruction after the match reads.
C4_ClobberRejection ==
    \A k \in DOMAIN emitted : emitted[k].killed \cap UsedAfter(k) = {}

\* %5 in RDX is read after the address fold; "mul m32" matches the fold and
\* writes RDX; another form has been committed for it.
C4_Witness ==
    /\ stream = AddLoadKeep(32)
    /\ Len(emitted) >= 1
    /\ emitted[1].len = 2
    /\ emitted[1].killed # {}
    /\ Env[5] = InReg("RDX") /\ 5 \in UsedAfter(1)
    /\ \E i \in DOMAIN table :
          /\ table[i].name = "mul m32"
          /\ Compatible(Alt(i, 3), <<4, 5>>, Consumed(1), Env)
          /\ "RDX" \in WrittenRegs(Alt(i, 3), <<4, 5>>, Consumed(1), Env)
          /\ emitted[1].form # i

\* C5. Fusion rejection on reuse: for the stream `add; is-zero of the sum;
\* store of the sum` matching does not fail, and the sum is given a real
\* location by the one committed form that performs the add.
C5_FusionRejectionOnReuse ==
    stream \in {AddTestStore(z) : z \in Sizes} =>
        /\ pc # "failed"
        /\ Len(emitted) >= 1 =>
              ~Internal(FormOf(1), emitted[1].steps[1])

\* C6. Address-fold fallback: when the address of `add base, disp; load` is
\* read by a later instruction, matching does not fail, the match that
\* performs the add does not absorb the load, and the Add step it commits is
\* not INTERNAL: the address is in a register after the commit.
C6_AddressFoldFallback ==
    stream \in {AddLoadReuse(z) : z \in Sizes} =>
        /\ pc # "failed"
        /\ \A k \in DOMAIN emitted :
              emitted[k].start = 1 =>
                  /\ emitted[k].len = 1
                  /\ ~Internal(FormOf(k), emitted[k].steps[1])
        /\ (Len(emitted) = 1 /\ pc = "query") => loc[stream[1].out].kind = "reg"

C6_Witness ==
    /\ stream = AddLoadReuse(32)
    /\ pc = "done"
    /\ Len(emitted) = 3
    /\ emitted[1].name = "add r32, i32"
    /\ emitted[2].variant = 1
    /\ emitted[3].name = "and r32, r32"

C9_FailureCondition ==
    [][/\ (pc' = "failed" /\ pc # "failed") =>
             /\ pc = "query"
             /\ len = 0
             /\ CouldEmit(InitialCandidates(Window(1), loc), 1) = {}
       /\ (pc = "query" /\ CouldEmit(InitialCandidates(Window(1), loc), 1) = {}) =>
             pc' = "failed"
       /\ pc = "refine" =>
             /\ pc' \in {"refine", "commit"}
             /\ pc' = "commit" => (len' = len /\ M' = M /\ cursor' = cursor)]_vars

\* The error at the first instruction of a second match, after a first match
\* that a refinement ended: the store follows the fused add and is-zero.
C9_Witness ==
    /\ pc = "failed"
    /\ Len(emitted) = 1
    /\ emitted[1].len = 2
    /\ cursor = 3
    /\ InitialCandidates(Window(1), loc) = {}

\* C10. No partial output on failure: when matching has failed, nothing has
\* been written for the stream.
C10_NoPartialOutput == pc = "failed" => emitted = <<>>

\* The list of matches after the first n instructions from the cursor: the
\* query of the first, refined by each of the others in turn.
RECURSIVE Matches(_)
Matches(n) ==
    IF n = 1 THEN InitialCandidates(Window(1), loc)
    ELSE RefinedCandidates(Matches(n - 1), Window(n), loc)

\* The forms, with the alternative of their memory operand, that M holds.
FormsOf(C) == {<<c.i, c.k>> : c \in C}

\* C14. Full x86 memory-operand collapse: the five-instruction stream of the
\* module documentation (add of base and displacement, shift of the index,
\* add of the two, load, add to %lhs; no other use of the intermediates) is
\* matched without failure into one committed form.
C14_MemoryOperandCollapse ==
    (stream \in {MemOperand(z) : z \in Sizes} /\ pc \in {"done", "failed"}) =>
        /\ pc = "done"
        /\ Len(emitted) = 1
        /\ emitted[1].len = 5

\* C15. Stand-alone flag query: on `add; sub; add_carry` the matching does
\* not fail: the add_carry is queried alone and an add form is committed for
\* it.
C15_StandAloneFlagQuery ==
    stream \in {CarryAlone(z) : z \in Sizes} =>
        /\ pc # "failed"
        /\ pc = "done" =>
              /\ emitted[Len(emitted)].start = 3
              /\ emitted[Len(emitted)].len = 1
              /\ \E j \in DOMAIN FormOf(Len(emitted)).steps :
                    /\ FormOf(Len(emitted)).steps[j].kind = "action"
                    /\ FormOf(Len(emitted)).steps[j].op \in {Add(z) : z \in Sizes}

C17_CommittedFormValid ==
    /\ [](pc \in {"refine", "commit"} => CouldEmit(M, len) # {})
    /\ [][pc = "commit" =>
             \E c \in M :
                /\ emitted' = Append(emitted, Emission(c))
                /\ Len(c.m) = len
                /\ Compatible(Alt(c.i, c.k), c.m, Window(len), loc)
                /\ Emittable(c, Window(len), loc, Live(len))]_vars

\* A commit from a list that also holds a match that could not be emitted.
C17_Witness ==
    /\ pc = "commit"
    /\ CouldEmit(M, len) # {}
    /\ CouldEmit(M, len) # M

\* C18. No rewind: at a commit of length len every prefix of the match had a
\* match that could be emitted, M is the list refined up to len, and the
\* stream has ended or the list refined by one more instruction has no match
\* that could be emitted, whatever a longer prefix would allow.
C18_NoRewind ==
    pc = "commit" =>
        /\ \A j \in 1..len : CouldEmit(Matches(j), j) # {}
        /\ M = Matches(len)
        /\ cursor + len <= Len(stream) => CouldEmit(Matches(len + 1), len + 1) = {}

\* The shift of the index is committed alone although the five instructions
\* together have a form that could be emitted.
C18_Witness ==
    /\ stream = MemOperandInOrder(32)
    /\ pc = "commit"
    /\ cursor = 1
    /\ len = 1
    /\ CouldEmit(Matches(5), 5) # {}

\* C20. Refinement only shrinks: every match of M' is a match of M extended
\* by one step for the newest instruction, so the forms of M' are forms of
\* M, and during a match the forms of M are forms of every earlier list.
C20_RefinementShrinks ==
    /\ [](pc \in {"refine", "commit"} =>
             \A j \in 1..len : FormsOf(M) \subseteq FormsOf(Matches(j)))
    /\ [][(pc = "refine" /\ len' = len + 1) =>
             /\ FormsOf(M') \subseteq FormsOf(M)
             /\ \A d \in M' :
                   /\ Len(d.m) = len + 1
                   /\ \E c \in M : c.i = d.i /\ c.k = d.k /\ c.m = SubSeq(d.m, 1, len)]_vars

\* A refinement that dropped forms: after the add and its test the list
\* holds fewer forms than the query of the add returned.
C20_Witness ==
    /\ stream = AddTest(32)
    /\ pc = "refine"
    /\ len = 2
    /\ FormsOf(M) # FormsOf(Matches(1))
    /\ FormsOf(M) # {}

\* C19. Every addressing step is emittable alone: a stream that computes
\* part of the address of a memory operand, and still uses the base and the
\* index afterwards, does not fail within the address computation.
C19_AddressStepEmittable ==
    stream \in AddressPrefixes => ~(pc = "failed" /\ cursor <= Len(stream) - 2)

\* The operand sizes of the Move steps of the forms registered so far.
MoveSizesOf(T) ==
    {z \in Bits : \E i \in DOMAIN T : \E k \in DOMAIN T[i].alts :
                     \E j \in DOMAIN T[i].alts[k].steps :
                        /\ T[i].alts[k].steps[j].kind = "action"
                        /\ T[i].alts[k].steps[j].op = Move(z)}

\* C12. Unsupported immediate width is fatal at build time: a specification
\* that is matched against has no instr call left to make and holds move
\* forms of 8, 16, 32 and 64 bits only; the build panics at the
\* register-immediate form of any other size, after the forms declared
\* before it, and nothing happens after the panic.
C12_BadImmediateSizeIsFatal ==
    /\ [](/\ pc \notin {"build", "panicked"} =>
                /\ decl = <<>>
                /\ MoveSizesOf(table) \subseteq {8, 16, 32, 64}
                /\ \A i \in DOMAIN table : ~Panics(table[i])
          /\ pc = "panicked" =>
                /\ decl # <<>>
                /\ Head(decl).entry[1] \notin {8, 16, 32, 64}
                /\ Head(decl).f = 4
                /\ emitted = <<>>
          /\ (pc = "build" /\ decl # <<>> /\ Head(decl).entry[1] \notin {8, 16, 32, 64}) =>
                Head(decl).f <= 4)
    /\ [][pc # "panicked"]_vars

\* The build of <<32, 24>> has panicked at "mov r24, i24": the forms of 32
\* bits and the first three forms of 24 bits were registered before it.
C12_Witness ==
    /\ pc = "panicked"
    /\ Head(decl).entry[1] = 24
    /\ 32 \in MoveSizesOf(table)
    /\ table[Len(table)].name = "mov m24, r24"

\* C13. Parallel independence: under every interleaving of two matchings
\* over one specification, no step changes the specification, a step of one
\* matching leaves the other as it is, and each matching ends with a result
\* (done or failed, and the forms committed) that it can end with when it is
\* run alone.  (A matching that has ended while waiting is looked at in the
\* state after the next Switch.)
C13_ParallelIndependence ==
    /\ [](pc \in {"done", "failed"} =>
             [pc |-> pc, emitted |-> emitted] \in Outcomes(stream, Env, 1, <<>>))
    /\ [][/\ table' = table
          /\ \/ other' = other
             \/ /\ other' = Waiting(3 - other.id)
                /\ <<stream', loc', cursor', len', M', pc', emitted'>>
                      = <<other.stream, other.loc, other.cursor, other.len, other.M,
                          other.pc, other.emitted>>]_vars

\* Both matchings have ended after steps of the one between steps of the
\* other: the waiting one has committed, the running one has failed after
\* its first commit.
C13_Witness ==
    /\ other.id = 1
    /\ other.pc = "done"
    /\ other.stream = AddThenAnd(32)
    /\ Len(other.emitted) = 2
    /\ stream = AddTestStore(32)
    /\ pc = "failed"
    /\ Len(emitted) = 1

\* Matching without the memoised bitmasks: every alternative of every form
\* of the table, and every assignment of its action steps to the
\* instructions of w, is checked against w.
ActionSteps(a) == {j \in DOMAIN a.steps : a.steps[j].kind = "action"}

DirectMatches(w, l) ==
    UNION {UNION {{Candidate(i, k, m) :
                      m \in {x \in [DOMAIN w -> ActionSteps(Alt(i, k))] :
                                Compatible(Alt(i, k), x, w, l)}}
                  : k \in {y \in DOMAIN table[i].alts :
                              \A t \in DOMAIN w :
                                 \E j \in ActionSteps(Alt(i, y)) :
                                    Alt(i, y).steps[j].op = w[t].op}}
           : i \in DOMAIN table}

\* C21. Bitmask refinement equals direct matching: while a match is in
\* progress, the candidate set M obtained from the query and the refinements
\* so far is the set of candidates found by checking every form directly
\* against the instructions consumed, and so is the refinement of M by the
\* next instruction of the stream.
C21_RefinementEqualsDirect ==
    pc \in {"refine", "commit"} =>
        /\ M = DirectMatches(Window(len), loc)
        /\ (pc = "refine" /\ cursor + len <= Len(stream)) =>
              RefinedCandidates(M, Window(len + 1), loc)
                 = DirectMatches(Window(len + 1), loc)

\* A refinement has been made, and M still has more than one candidate.
C21_Witness ==
    /\ pc = "commit"
    /\ len = 2
    /\ Cardinality(M) > 1
    /\ M = DirectMatches(Window(len), loc)

\* C22. Binding consistency: while a match is in progress, in the binding of
\* every candidate of M a Low IR Var of the consumed instructions is bound to
\* one template slot only; and a match that has failed at its first
\* instruction left no candidate whose binding is consistent.
C22_BindingConsistency ==
    /\ pc \in {"refine", "commit"} =>
          \A c \in M :
             \A x, y \in Binding(Alt(c.i, c.k), c.m, Window(len)) :
                x[1] = y[1] => x[2] = y[2]
    /\ pc = "failed" =>
          \A c \in InitialCandidates(Window(1), loc) :
             \A x, y \in Binding(Alt(c.i, c.k), c.m, Window(1)) :
                x[1] = y[1] => x[2] = y[2]

\* The sum was bound to one slot by the add and by its test, which were
\* committed as one form; then every form of the operation that reads %1
\* twice was removed, since it would need %1 in two slots.
C22_Witness ==
    /\ stream = AddTestSelf(32)
    /\ pc = "failed"
    /\ Len(emitted) = 1
    /\ emitted[1].len = 2
    /\ InitialCandidates(Window(1), loc) = {}
    /\ \E t \in Sites(Window(1)[1].op) :
          /\ Structural(Alt(t[1], t[2]), <<t[3]>>, Window(1))
          /\ DataFlow(Alt(t[1], t[2]), <<t[3]>>, Window(1), loc)

\* The address computation of alternative a of a form with a memory operand:
\* the action steps that the address read by the form's Load is computed by.
RECURSIVE AddressClosure(_, _)
AddressClosure(a, S) ==
    LET T == S \cup {j \in ActionSteps(a) :
                        \E x \in S : a.steps[j].v \in Range(a.steps[x].ins)}
    IN  IF T = S THEN S ELSE AddressClosure(a, T)

AddressActions(a) ==
    AddressClosure(a, UNION {ProducerSteps(a, a.steps[j].ins[1]) :
                                j \in {x \in ActionSteps(a) : a.steps[x].op.tag = "Load"}})

\* C23. One variant per match: every committed match of a form with a memory
\* operand has consumed every address step of the alternative it selects,
\* and selects the bare-register alternative when it has consumed no address
\* step.
C23_OneVariantPerMatch ==
    \A x \in DOMAIN emitted :
        LET e == emitted[x]
            a == table[e.form].alts[e.alt]
        IN  Len(table[e.form].alts) > 1 =>
               /\ AddressActions(a) \subseteq Range(e.steps)
               /\ Range(e.steps) \cap AddressActions(a) = {} => e.alt = 1

\* C24. Termination and progress: the matching of every stream ends, done or
\* failed; every commit is of a match of at least one instruction and moves
\* the cursor forward by its length, no other step moves the cursor; a run
\* that is done has its cursor at the end of the stream, and a failed one
\* has it at an instruction of the stream.
C24_TerminationAndProgress ==
    /\ <>(pc \in {"done", "failed"})
    /\ [](/\ pc = "done" => cursor = Len(stream) + 1
          /\ pc = "failed" => cursor \in DOMAIN stream)
    /\ [][IF pc = "commit"
          THEN len >= 1 /\ cursor' = cursor + len /\ cursor' > cursor
          ELSE cursor' = cursor]_vars

\* A run that has ended at the end of its stream after two commits.
C24_Witness ==
    /\ pc = "done"
    /\ Len(emitted) = 2
    /\ emitted[1].start < emitted[2].start
    /\ cursor = Len(stream) + 1

\* The forms with a memory operand, the Var of the operand (the address that
\* the form's Load reads), and whether Var v of alternative a is a parameter
\* with constraint c.
MemoryForms == {i \in DOMAIN table : Len(table[i].alts) > 1}

AddressVar(a) ==
    a.steps[CHOOSE j \in ActionSteps(a) : a.steps[j].op.tag = "Load"].ins[1]

IsParam(a, v, c) ==
    \E p \in DOMAIN a.steps :
        a.steps[p].kind = "param" /\ a.steps[p].v = v /\ a.steps[p].c = c

\* Var v of alternative a is the INTERNAL output of one action step, which
\* performs op on two Vars; Operand(a, v, q) is the q-th of them.
Computed(a, v, op) ==
    /\ Cardinality(ProducerSteps(a, v)) = 1
    /\ \A j \in ProducerSteps(a, v) :
          /\ a.steps[j].op = op
          /\ Len(a.steps[j].ins) = 2
          /\ Internal(a, j)

Operand(a, v, q) == a.steps[CHOOSE j \in ProducerSteps(a, v) : TRUE].ins[q]

\* C25. Memory operand shape: every form with a memory operand has exactly
\* five alternatives, whose operand is one and the same Var: a register; base
\* + index; base + displacement; (base + index) + displacement; and (base +
\* (index << scale)) + displacement with a scale of 3 bits.  Base and index
\* are registers of INT_REG, the displacement is an immediate of
\* MEM_OPERAND_SIZE bits, the operations are of MEM_OPERAND_SIZE bits, and the
\* output of every address step is INTERNAL.  This is so in the specification
\* that matching starts with, and no step changes the specification.
C25_MemoryOperandShape ==
  /\ [][table' = table]_vars
  /\ \A i \in MemoryForms :
        LET a(k) == table[i].alts[k]
            out == AddressVar(a(1))
            sz == MEM_OPERAND_SIZE
            t4 == Operand(a(4), out, 1)
            t5 == Operand(a(5), out, 1)
            u5 == Operand(a(5), t5, 2)
        IN  /\ Len(table[i].alts) = 5
            /\ \A k \in 1..5 : AddressVar(a(k)) = out /\ a(k).variant = k
            /\ AddressActions(a(1)) = {}
            /\ \E r \in EqClass(a(1), out) : IsParam(a(1), r, INT_REG)
            /\ Computed(a(2), out, Add(sz))
            /\ IsParam(a(2), Operand(a(2), out, 1), INT_REG)
            /\ IsParam(a(2), Operand(a(2), out, 2), INT_REG)
            /\ Cardinality(AddressActions(a(2))) = 1
            /\ Computed(a(3), out, Add(sz))
            /\ IsParam(a(3), Operand(a(3), out, 1), INT_REG)
            /\ IsParam(a(3), Operand(a(3), out, 2), Immediate(sz))
            /\ Cardinality(AddressActions(a(3))) = 1
            /\ Computed(a(4), out, Add(sz))
            /\ IsParam(a(4), Operand(a(4), out, 2), Immediate(sz))
            /\ Computed(a(4), t4, Add(sz))
            /\ IsParam(a(4), Operand(a(4), t4, 1), INT_REG)
            /\ IsParam(a(4), Operand(a(4), t4, 2), INT_REG)
            /\ Cardinality(AddressActions(a(4))) = 2
            /\ Computed(a(5), out, Add(sz))
            /\ IsParam(a(5), Operand(a(5), out, 2), Immediate(sz))
            /\ Computed(a(5), t5, Add(sz))
            /\ IsParam(a(5), Operand(a(5), t5, 1), INT_REG)
            /\ Computed(a(5), u5, ShiftL(sz))
            /\ IsParam(a(5), Operand(a(5), u5, 1), INT_REG)
            /\ IsParam(a(5), Operand(a(5), u5, 2), Immediate(3))
            /\ Cardinality(AddressActions(a(5))) = 3

\* The shift of an index by a scale has been queried: M holds forms in their
\* fifth alternative, matched by its shift.
C25_Witness ==
    /\ pc = "refine"
    /\ len = 1
    /\ \E c \in M :
          /\ c.i \in MemoryForms
          /\ c.k = 5
          /\ Alt(c.i, c.k).steps[c.m[1]].op = ShiftL(MEM_OPERAND_SIZE)

\* The flag registers, and the forms of an integer operation: arithmetic,
\* arithmetic with carry, logical, shift and multiply (cmp is a Sub).
Flags == {"CF", "OF", "ZF", "SF"}

IntegerOps ==
    {"Add", "Sub", "AddWithCarry", "SubWithCarry", "And", "Or", "Xor", "ShiftL",
     "ShiftArithR", "ShiftLogicalR", "SMul", "UMul"}

IntegerForm(i) ==
    \E j \in ActionSteps(table[i].alts[1]) : table[i].alts[1].steps[j].op.tag \in IntegerOps

\* C26. Flag writes are declared for every integer form: in the
\* specification that matching starts with, every alternative of every form
\* of an integer operation has an action step into each of CF, OF, ZF and SF;
\* no step changes the specification; and no such form is committed while a
\* Var that an instruction after the match reads is held in one of these
\* registers.
C26_FlagWritesDeclared ==
    /\ \A i \in {x \in DOMAIN table : IntegerForm(x)} :
          \A k \in DOMAIN table[i].alts : \A f \in Flags :
             \E j \in ActionSteps(Alt(i, k)) : Alt(i, k).steps[j].reg = f
    /\ [][table' = table]_vars
    /\ [][(pc = "commit" /\ IntegerForm(emitted'[Len(emitted')].form)) =>
             \A z \in Live(len) : loc[z].kind = "reg" => loc[z].reg \notin Flags]_vars

\* The query for a logical operation has failed: its forms write CF, which
\* holds the carry that the next instruction adds.
C26_Witness ==
    /\ stream = AndKeepCarry(32)
    /\ pc = "failed"
    /\ cursor = 1
    /\ loc[8] = InReg("CF")
    /\ \E c \in InitialCandidates(Window(1), loc) :
          /\ IntegerForm(c.i)
          /\ ~ClobberFree(Alt(c.i, c.k), c.m, Window(1), loc, Live(1))

\* C27. Three-operand multiply keeps its source: the multiply of %0 by an
\* immediate does not fail; it is committed as the form with an immediate
\* operand, after which %0 is where it was and the product is in a register.
C27_ThreeOperandMultiplyKeepsSource ==
    \A z \in Sizes :
        stream \in {SMulKeep(z), <<SMulKeep(z)[1]>>} =>
            /\ ~(pc = "failed" /\ cursor = 1)
            /\ emitted # <<>> =>
                  /\ emitted[1].name
                        \in {"imul r32, r32, imm32", "imul r64, r64, imm32"}
                  /\ loc[0] = Env[0]
                  /\ loc[10].kind = "reg"

\* C28. Form names are unique: the forms of the specification that matching
\* starts with have pairwise distinct names, as many names as there are instr
\* calls, so a form is found by its name; and no step changes the
\* specification.
C28_FormNamesUnique ==
    /\ \A i, j \in DOMAIN table : table[i].name = table[j].name => i = j
    /\ Cardinality({table[i].name : i \in DOMAIN table}) = Len(table)
    /\ [][table' = table]_vars

\* A form has been committed for a query that also matched forms of other
\* names; its name is the name of that one form of the specification.
C28_Witness ==
    /\ pc = "done"
    /\ Len(emitted) = 1
    /\ {i \in DOMAIN table : table[i].name = emitted[1].name} = {emitted[1].form}
    /\ Cardinality({table[c.i].name : c \in InitialCandidates(stream, Env)}) > 1

\* The form registered under a name.
FormNamed(name) == table[CHOOSE i \in DOMAIN table : table[i].name = name]

\* C29. Memory-destination transfers store: in every alternative the forms
\* "movd m32, f32" and "movq m64, f64" have a Store action step, and their
\* steps are not the steps of "movd f32, m32" and "movq f64, m64".
C29_MemoryDestinationTransfersStore ==
    \A p \in {<<"movd m32, f32", "movd f32, m32">>, <<"movq m64, f64", "movq f64, m64">>} :
        \A k \in DOMAIN FormNamed(p[1]).alts :
            LET dst == FormNamed(p[1]).alts[k]
                src == FormNamed(p[2]).alts[k]
            IN  /\ \E j \in ActionSteps(dst) : dst.steps[j].op.tag = "Store"
                /\ dst.steps # src.steps

\* C30. Register class membership: INT_REG holds the sixteen general-purpose
\* registers of x64::regs, RAX to RSP and R8 to R15, and nothing else; FP_REG
\* holds exactly XMM0 to XMM7; no register is listed twice in a class, and no
\* register is in both; every register that holds a Var is one of x64::regs.
C30_RegisterClassMembership ==
    LET gpr == {regs[x] : x \in 1..16}
        xmm == {regs[x] : x \in 21..28}
    IN  /\ \A z \in DOMAIN loc : loc[z].kind = "reg" => loc[z].reg \in Range(regs)
        /\ gpr = {"RAX", "RBX", "RCX", "RDX", "RBP", "RSI", "RDI", "RSP",
                  "R8", "R9", "R10", "R11", "R12", "R13", "R14", "R15"}
        /\ xmm = {"XMM0", "XMM1", "XMM2", "XMM3", "XMM4", "XMM5", "XMM6", "XMM7"}
        /\ Range(INT_REG.regs) = gpr
        /\ Range(FP_REG.regs) = xmm
        /\ Cardinality(Range(INT_REG.regs)) = Len(INT_REG.regs)
        /\ Cardinality(Range(FP_REG.regs)) = Len(FP_REG.regs)
        /\ Range(INT_REG.regs) \cap Range(FP_REG.regs) = {}

====
